---------------------------- MODULE Spec2Model ----------------------------
(***************************************************************************)
(* A model of JMux, the streaming JSON demultiplexer: the string decoder   *)
(* (src/decoder.py), the push-down automaton (src/src/jmux/pda.py), the    *)
(* two sinks (src/awaitable.py) and the character-fed state machine        *)
(* (src/demux.py).  Characters are Unicode code points (integers); a       *)
(* Python str is a sequence of code points.                                *)
(***************************************************************************)
EXTENDS Integers, Sequences, FiniteSets, TLC

(***************************************************************************)
(* Characters.                                                             *)
(***************************************************************************)
CharCode ==
    "{" :> 123 @@ "}" :> 125 @@ "[" :> 91 @@ "]" :> 93 @@ "\"" :> 34 @@
    ":" :> 58 @@ "," :> 44 @@ "\\" :> 92 @@ " " :> 32 @@ "\n" :> 10 @@
    "\t" :> 9 @@ "\r" :> 13 @@ "-" :> 45 @@ "+" :> 43 @@ "." :> 46 @@
    "/" :> 47 @@
    "0" :> 48 @@ "1" :> 49 @@ "2" :> 50 @@ "3" :> 51 @@ "4" :> 52 @@
    "5" :> 53 @@ "6" :> 54 @@ "7" :> 55 @@ "8" :> 56 @@ "9" :> 57 @@
    "a" :> 97 @@ "b" :> 98 @@ "c" :> 99 @@ "d" :> 100 @@ "e" :> 101 @@
    "f" :> 102 @@ "i" :> 105 @@ "j" :> 106 @@ "l" :> 108 @@ "m" :> 109 @@
    "n" :> 110 @@ "o" :> 111 @@ "p" :> 112 @@ "r" :> 114 @@ "s" :> 115 @@
    "t" :> 116 @@ "u" :> 117 @@ "x" :> 120 @@ "y" :> 121 @@
    "E" :> 69 @@ "P" :> 80 @@ "_" :> 95

Ord(c) == CharCode[c]

\* The Python str written as a tuple of one-character strings.
RECURSIVE Str(_)
Str(s) == IF Len(s) = 0 THEN <<>>
          ELSE Append(Str(SubSeq(s, 1, Len(s) - 1)), Ord(s[Len(s)]))

Chars(s) == {Ord(s[i]) : i \in 1..Len(s)}

\* helpers.is_json_whitespace
is_json_whitespace(ch) == ch \in {Ord(" "), Ord("\t"), Ord("\n"), Ord("\r")}

Front(s) == SubSeq(s, 1, Len(s) - 1)
Last(s) == s[Len(s)]

\* str.startswith
StartsWith(s, p) == Len(p) <= Len(s) /\ SubSeq(s, 1, Len(p)) = p

(***************************************************************************)
(* Python values.  A value is a record [t, v]: t the Python type, v a      *)
(* tuple of integers (the code points of a str, <<n>> for an int, <<0>> or *)
(* <<1>> for a bool, <<sign, mantissa, exponent>> for a float, <<id>> for  *)
(* a JMux instance: the index of the engine in `engines`).                 *)
(***************************************************************************)
NoneV == [t |-> "NoneType", v |-> <<>>]
StrV(s) == [t |-> "str", v |-> s]
IntV(n) == [t |-> "int", v |-> <<n>>]
BoolV(b) == [t |-> "bool", v |-> IF b THEN <<1>> ELSE <<0>>]
FloatV(sg, m, e) == [t |-> "float", v |-> <<sg, m, e>>]
JMuxV(id) == [t |-> "JMux", v |-> <<id>>]

IsNone(val) == val.t = "NoneType"

(***************************************************************************)
(* Number parsing: int(buffer), int(buffer, 16) and float(buffer).  Each   *)
(* returns [ok, ...]; ok = FALSE is Python's ValueError.                   *)
(***************************************************************************)
DigitVal(c) == IF c >= 48 /\ c <= 57 THEN c - 48 ELSE -1

HexDigitVal(c) ==
    IF c >= 48 /\ c <= 57 THEN c - 48
    ELSE IF c >= 97 /\ c <= 102 THEN c - 87
    ELSE IF c >= 65 /\ c <= 70 THEN c - 55
    ELSE -1

RECURSIVE BaseVal(_, _)
BaseVal(s, base) ==
    IF s = <<>> THEN 0
    ELSE BaseVal(Front(s), base) * base + HexDigitVal(Last(s))

RECURSIVE StripWs(_)
StripWs(s) ==
    IF s = <<>> THEN s
    ELSE IF is_json_whitespace(s[1]) THEN StripWs(Tail(s))
    ELSE IF is_json_whitespace(Last(s)) THEN StripWs(Front(s))
    ELSE s

IsSign(c) == c \in {Ord("-"), Ord("+")}

\* The digits of int(s, base), the sign taken off: at least one digit of the
\* base and nothing else.
IsBaseDigits(body, base) ==
    /\ body # <<>>
    /\ \A i \in 1..Len(body) :
         HexDigitVal(body[i]) >= 0 /\ HexDigitVal(body[i]) < base

\* int(t, base), t stripped of whitespace
PyIntStripped(t, base) ==
    IF t # <<>> /\ IsSign(t[1])
    THEN IF ~IsBaseDigits(Tail(t), base) THEN [ok |-> FALSE, v |-> 0]
         ELSE [ok |-> TRUE,
               v |-> IF t[1] = Ord("-") THEN 0 - BaseVal(Tail(t), base)
                     ELSE BaseVal(Tail(t), base)]
    ELSE IF ~IsBaseDigits(t, base) THEN [ok |-> FALSE, v |-> 0]
    ELSE [ok |-> TRUE, v |-> BaseVal(t, base)]

\* int(s, base) for base 10 or 16, on the strings the model's characters can
\* form: surrounding whitespace is stripped, a sign is optional, at least one
\* digit of the base must follow and nothing else.
PyInt(s, base) == PyIntStripped(StripWs(s), base)

IsDigits(s) == \A i \in 1..Len(s) : DigitVal(s[i]) >= 0

\* A decimal as <<sign, mantissa, exponent>> with no trailing zero in the
\* mantissa; zero is <<sign, 0, 0>>.
RECURSIVE NormDec(_, _, _)
NormDec(sg, m, e) ==
    IF m = 0 THEN FloatV(sg, 0, 0)
    ELSE IF m % 10 = 0 THEN NormDec(sg, m \div 10, e + 1)
    ELSE FloatV(sg, m, e)

\* The first position of t holding a character of cs, Len(t) + 1 if none.
FirstOf(t, cs) ==
    IF \E i \in 1..Len(t) : t[i] \in cs
    THEN CHOOSE i \in 1..Len(t) :
           t[i] \in cs /\ \A j \in 1..(i - 1) : t[j] \notin cs
    ELSE Len(t) + 1

\* float of sign sg, integer digits ipart, fraction digits fpart and, when
\* hasE, exponent digits ebody of sign eneg
PyFloatOf(sg, ipart, fpart, hasE, eneg, ebody) ==
    IF ~( /\ IsDigits(ipart) /\ IsDigits(fpart)
          /\ Len(ipart) + Len(fpart) > 0
          /\ hasE => (ebody # <<>> /\ IsDigits(ebody)) )
    THEN [ok |-> FALSE, v |-> NoneV]
    ELSE [ok |-> TRUE,
          v |-> NormDec(sg, BaseVal(ipart \o fpart, 10),
                        (IF ~hasE THEN 0
                         ELSE IF eneg THEN 0 - BaseVal(ebody, 10)
                         ELSE BaseVal(ebody, 10)) - Len(fpart))]

\* float of sign sg, mantissa text mant and, when hasE, exponent text expo
PyFloatParts(sg, mant, hasE, expo) ==
    PyFloatOf(sg,
              SubSeq(mant, 1, FirstOf(mant, {Ord(".")}) - 1),
              SubSeq(mant, FirstOf(mant, {Ord(".")}) + 1, Len(mant)),
              hasE,
              expo # <<>> /\ expo[1] = Ord("-"),
              IF expo # <<>> /\ IsSign(expo[1]) THEN Tail(expo) ELSE expo)

\* float of sign sg and unsigned text t
PyFloatUnsigned(sg, t) ==
    PyFloatParts(sg,
                 SubSeq(t, 1, FirstOf(t, {Ord("e"), Ord("E")}) - 1),
                 FirstOf(t, {Ord("e"), Ord("E")}) <= Len(t),
                 SubSeq(t, FirstOf(t, {Ord("e"), Ord("E")}) + 1, Len(t)))

\* float(s) on strings over 0-9 + - e E . : [sign] (digits [. [digits]] |
\* . digits) [(e|E) [sign] digits]
PyFloat(s) ==
    IF s # <<>> /\ IsSign(s[1])
    THEN PyFloatUnsigned(IF s[1] = Ord("-") THEN 1 ELSE 0, Tail(s))
    ELSE PyFloatUnsigned(0, s)

(***************************************************************************)
(* StringDecoder (src/decoder.py).                                         *)
(***************************************************************************)
NoSurrogate == 0 - 1

\* StringDecoder.__init__
NewDecoder ==
    [buffer |-> <<>>, string_escape |-> FALSE, is_parsing_unicode |-> FALSE,
     unicode_buffer |-> <<>>, high_surrogate |-> NoSurrogate]

\* StringDecoder.escape_map.get(ch, ch)
escape_map(ch) ==
    IF ch = Ord("b") THEN 8
    ELSE IF ch = Ord("f") THEN 12
    ELSE IF ch = Ord("n") THEN 10
    ELSE IF ch = Ord("r") THEN 13
    ELSE IF ch = Ord("t") THEN 9
    ELSE ch

IsHighSurrogate(cu) == 55296 <= cu /\ cu <= 56319
IsLowSurrogate(cu) == 56320 <= cu /\ cu <= 57343
\* A faulty combination that leaves out the offset 0x10000.
CombineSurrogatesNoOffset(hi, lo) == ((hi - 55296) * 1024) + (lo - 56320)
CombineSurrogates(hi, lo) == 65536 + ((hi - 55296) * 1024) + (lo - 56320)

\* The fourth character of a \uXXXX escape: the code unit p = int(ub, 16) is
\* complete; d1 is the decoder with the escape over.
DecoderPushParsed(d, d1, ub, p) ==
    IF ~p.ok
    THEN [d |-> [d EXCEPT !.unicode_buffer = ub], err |-> "ValueError"]
    ELSE IF d.high_surrogate # NoSurrogate
    THEN IF IsLowSurrogate(p.v)
         THEN [d |-> [d1 EXCEPT
                        !.buffer = Append(@, CombineSurrogates(d.high_surrogate, p.v)),
                        !.high_surrogate = NoSurrogate],
               err |-> "ok"]
         ELSE IF p.v < 0
         THEN [d |-> [d1 EXCEPT !.buffer = Append(@, d.high_surrogate)],
               err |-> "ValueError"]
         ELSE [d |-> [d1 EXCEPT !.buffer = @ \o <<d.high_surrogate, p.v>>],
               err |-> "StreamParseError"]
    ELSE IF IsHighSurrogate(p.v)
    THEN [d |-> [d1 EXCEPT !.high_surrogate = p.v], err |-> "ok"]
    ELSE IF p.v < 0
    THEN [d |-> d1, err |-> "ValueError"]
    ELSE [d |-> [d1 EXCEPT !.buffer = Append(@, p.v)], err |-> "ok"]

DecoderPushCodeUnit(d, ub) ==
    DecoderPushParsed(
        d, [d EXCEPT !.is_parsing_unicode = FALSE, !.unicode_buffer = <<>>],
        ub, PyInt(ub, 16))

\* StringDecoder.push
DecoderPush(d, ch) ==
    IF d.is_parsing_unicode
    THEN IF Len(d.unicode_buffer) = 3
         THEN DecoderPushCodeUnit(d, Append(d.unicode_buffer, ch))
         ELSE [d |-> [d EXCEPT !.unicode_buffer = Append(@, ch)], err |-> "ok"]
    ELSE IF d.string_escape
    THEN IF ch = Ord("u")
         THEN [d |-> [d EXCEPT !.string_escape = FALSE,
                               !.is_parsing_unicode = TRUE,
                               !.unicode_buffer = <<>>],
               err |-> "ok"]
         ELSE [d |-> [d EXCEPT !.string_escape = FALSE,
                               !.buffer = Append(@, escape_map(ch))],
               err |-> "ok"]
    ELSE IF ch = Ord("\\")
    THEN [d |-> [d EXCEPT !.string_escape = TRUE], err |-> "ok"]
    ELSE [d |-> [d EXCEPT !.buffer = Append(@, ch)], err |-> "ok"]

\* StringDecoder.is_terminating_quote
is_terminating_quote(d, ch) ==
    IF d.string_escape THEN FALSE
    ELSE IF ch = Ord("\"") THEN TRUE
    ELSE FALSE

\* StringDecoder.reset
DecoderReset(d) == [d EXCEPT !.buffer = <<>>, !.string_escape = FALSE]


(***************************************************************************)
(* Sinks (src/awaitable.py).  A sink operation returns [s, err]: the sink  *)
(* after the call and "ok" or the exception raised.  The asyncio.Queue of  *)
(* a StreamableValues is unbounded, so put never suspends; NoneV in the    *)
(* queue is the end-of-stream marker put by close (and Python's None).     *)
(***************************************************************************)
\* UnderlyingGenericMixin.get_underlying_main_generic
get_underlying_main_generic(generics) ==
    IF Cardinality(generics) = 1 THEN CHOOSE g \in generics : TRUE
    ELSE CHOOSE g \in generics : g # "NoneType"

\* StreamableValues.__init__ / AwaitableValue.__init__
NewSink(kind, generics) ==
    IF kind = "StreamableValues"
    THEN [kind |-> kind, generics |-> generics,
          queue |-> <<>>, last_item |-> NoneV, closed |-> FALSE]
    ELSE [kind |-> kind, generics |-> generics,
          is_closed |-> FALSE, event |-> FALSE, value |-> NoneV]

\* A faulty put that does not look at the closed flag.
StreamablePutUnchecked(s, item) ==
    [s |-> [s EXCEPT !.last_item = item, !.queue = Append(@, item)],
     err |-> "ok"]

\* StreamableValues.put
StreamablePut(s, item) ==
    IF s.closed THEN [s |-> s, err |-> "ValueError"]
    ELSE [s |-> [s EXCEPT !.last_item = item, !.queue = Append(@, item)],
          err |-> "ok"]

\* A faulty close that closes a closed sink again.
StreamableCloseAgain(s) ==
    [s |-> [s EXCEPT !.closed = TRUE, !.queue = Append(@, NoneV)],
     err |-> "ok"]

\* StreamableValues.close
StreamableClose(s) ==
    IF s.closed THEN [s |-> s, err |-> "SinkClosedError"]
    ELSE [s |-> [s EXCEPT !.closed = TRUE, !.queue = Append(@, NoneV)],
          err |-> "ok"]

\* A faulty put that takes a sink holding None for a sink that is not set.
AwaitablePutIgnoringEvent(s, value) ==
    IF ~IsNone(s.value) \/ s.is_closed
    THEN [s |-> s, err |-> "ValueError"]
    ELSE [s |-> [s EXCEPT !.value = value, !.event = TRUE], err |-> "ok"]

\* AwaitableValue.put
AwaitablePut(s, value) ==
    IF ~IsNone(s.value) \/ s.is_closed \/ s.event
    THEN [s |-> s, err |-> "ValueError"]
    ELSE [s |-> [s EXCEPT !.value = value, !.event = TRUE], err |-> "ok"]

\* A faulty close that closes an unset sink allowing None without setting
\* its event.
AwaitableCloseSilent(s) ==
    IF s.is_closed THEN [s |-> s, err |-> "SinkClosedError"]
    ELSE IF ~s.event /\ "NoneType" \notin s.generics
    THEN [s |-> s, err |-> "NothingEmittedError"]
    ELSE [s |-> [s EXCEPT !.is_closed = TRUE], err |-> "ok"]

\* A faulty close that accepts a sink nothing was put into; the properties
\* about finalization must tell it from AwaitableValue.close.
AwaitableCloseUnchecked(s) ==
    IF s.is_closed THEN [s |-> s, err |-> "SinkClosedError"]
    ELSE [s |-> [s EXCEPT !.event = TRUE, !.is_closed = TRUE], err |-> "ok"]

\* AwaitableValue.close
AwaitableClose(s) ==
    IF s.is_closed THEN [s |-> s, err |-> "SinkClosedError"]
    ELSE IF ~s.event /\ "NoneType" \in s.generics
    THEN [s |-> [s EXCEPT !.event = TRUE, !.is_closed = TRUE], err |-> "ok"]
    ELSE IF ~s.event
    THEN [s |-> s, err |-> "NothingEmittedError"]
    ELSE [s |-> [s EXCEPT !.is_closed = TRUE], err |-> "ok"]

\* IAsyncSink.get_sink_type
get_sink_type(s) == s.kind

\* IAsyncSink.put
SinkPut(s, val) ==
    IF s.kind = "StreamableValues" THEN StreamablePut(s, val)
    ELSE AwaitablePut(s, val)

\* IAsyncSink.close
SinkClose(s) ==
    IF s.kind = "StreamableValues" THEN StreamableClose(s)
    ELSE AwaitableClose(s)

SinkIsClosed(s) ==
    IF s.kind = "StreamableValues" THEN s.closed ELSE s.is_closed

\* A faulty ensure_closed that closes without looking at the closed flag.
SinkEnsureClosedAlwaysCloses(s) == SinkClose(s)

\* StreamableValues.ensure_closed / AwaitableValue.ensure_closed
SinkEnsureClosed(s) ==
    IF SinkIsClosed(s) THEN [s |-> s, err |-> "ok"] ELSE SinkClose(s)

\* StreamableValues.get_current / AwaitableValue.get_current: [ok, v], ok =
\* FALSE is the ValueError raised when nothing was put (or None was).
get_current(s) ==
    LET v == IF s.kind = "StreamableValues" THEN s.last_item ELSE s.value
    IN [ok |-> ~IsNone(v), v |-> v]


(***************************************************************************)
(* Schemas: the JMux subclasses the model runs.  Fields(cls) is the class's *)
(* annotations in declaration order (get_type_hints), each a sink type and *)
(* its generic argument as the set extract_types_from_generic_alias gives. *)
(***************************************************************************)
Field(name, kind, generics) ==
    [name |-> Str(name), kind |-> kind, generics |-> generics]

Fields(cls) ==
    CASE cls = "SStream" ->
           \* test_json_demux__simple_json: two streamed strings
           << Field(<<"s">>, "StreamableValues", {"str"}),
              Field(<<"t">>, "StreamableValues", {"str"}) >>
      [] cls = "SPrim" ->
           << Field(<<"a">>, "AwaitableValue", {"str"}),
              Field(<<"n">>, "AwaitableValue", {"int"}),
              Field(<<"b">>, "AwaitableValue", {"bool", "NoneType"}),
              Field(<<"f">>, "AwaitableValue", {"float", "NoneType"}),
              Field(<<"o">>, "AwaitableValue", {"NoneType"}) >>
      [] cls = "SArr" ->
           << Field(<<"l">>, "StreamableValues", {"int"}),
              Field(<<"x">>, "StreamableValues", {"float"}),
              Field(<<"t">>, "StreamableValues", {"str"}),
              Field(<<"e">>, "StreamableValues", {"NoneType"}),
              Field(<<"m">>, "StreamableValues", {"SLeaf"}) >>
      [] cls = "SNest" ->
           << Field(<<"i">>, "AwaitableValue", {"SMid"}) >>
      [] cls = "SDeep" ->
           << Field(<<"i">>, "AwaitableValue", {"SMid"}),
              Field(<<"y">>, "AwaitableValue", {"str"}) >>
      [] cls = "SMid" ->
           << Field(<<"j">>, "AwaitableValue", {"SLeaf", "NoneType"}),
              Field(<<"a">>, "AwaitableValue", {"str", "NoneType"}) >>
      [] cls = "SLeaf" ->
           << Field(<<"a">>, "AwaitableValue", {"str"}) >>

SchemaClasses ==
    {"SStream", "SPrim", "SArr", "SNest", "SDeep", "SMid", "SLeaf"}

\* issubclass(t, JMux)
IsJMuxClass(t) == t \in SchemaClasses

FieldNames(cls) == {Fields(cls)[i].name : i \in 1..Len(Fields(cls))}

FieldNamed(cls, name) ==
    Fields(cls)[CHOOSE i \in 1..Len(Fields(cls)) : Fields(cls)[i].name = name]

\* Attributes of a JMux instance that are not sinks (hasattr is true of them).
NonSinkAttrs == {Str(<<"_", "p", "d", "a">>)}

(***************************************************************************)
(* An engine: one JMux instance (src/demux.py).  current_key = NoKey is    *)
(* Sink._current_sink = None; the sinks are the instance's attributes.     *)
(***************************************************************************)
NoKey == <<>>

\* JMux.__init__ and JMux._instantiate_attributes
NewEngine(cls) ==
    [cls |-> cls,
     state |-> "start",
     stack |-> <<>>,
     decoder |-> NewDecoder,
     current_key |-> NoKey,
     sinks |-> [k \in FieldNames(cls) |->
                   NewSink(FieldNamed(cls, k).kind, FieldNamed(cls, k).generics)],
     history |-> <<>>]

PRIMITIVE_STATES ==
    {"parsing_integer", "parsing_float", "parsing_boolean", "parsing_null"}

\* PushDownAutomata.top
Top(g) == IF g.stack = <<>> THEN "None" ELSE Last(g.stack)
\* PushDownAutomata.set_state
set_state(g, s) == [g EXCEPT !.state = s]
\* A faulty push that appends the mode twice.
PushTwice(g, m) == [g EXCEPT !.stack = Append(Append(@, m), m)]

\* PushDownAutomata.push
push(g, m) == [g EXCEPT !.stack = Append(@, m)]
\* A faulty pop that leaves the stack as it is.
PopNothing(g) == g

\* PushDownAutomata.pop (every caller has checked the top first)
pop(g) == [g EXCEPT !.stack = Front(@)]

\* The outcome of a call: the engines after it and the exception raised, if
\* any (kind "ok": none).  A raise keeps the effects made before it.
Err(kind) == [kind |-> kind, arg |-> <<>>]
NoErr == Err("ok")
Ok(e) == [e |-> e, err |-> NoErr]
Raise(e, kind) == [e |-> e, err |-> Err(kind)]
Failed(r) == r.err.kind # "ok"

\* `await f(...)` and then the rest of the handler K, which an exception
\* raised by the call skips.
Bind(r, K(_)) == IF Failed(r) THEN r ELSE K(r.e)

\* `x = f(...)` and then the rest of the handler K.
With(x, K(_)) == K(x)

SetEngine(engs, id, g) == [engs EXCEPT ![id] = g]

CurSink(g) == g.sinks[g.current_key]

\* isinstance(val, t)
IsInstance(engs, val, t) ==
    \/ val.t = t
    \/ val.t = "bool" /\ t = "int"
    \/ val.t = "JMux" /\ engs[val.v[1]].cls = t

\* A faulty set_current that does not tell an attribute that is no sink
\* from a missing one.
SinkSetCurrentNoTypeCheck(engs, id, attr_name) ==
    IF attr_name \in DOMAIN engs[id].sinks
    THEN Ok([engs EXCEPT ![id].current_key = attr_name])
    ELSE Raise(engs, "MissingAttributeError")

\* Sink.set_current
SinkSetCurrent(engs, id, attr_name) ==
    IF attr_name \in DOMAIN engs[id].sinks
    THEN Ok([engs EXCEPT ![id].current_key = attr_name])
    ELSE IF attr_name \in NonSinkAttrs
    THEN Raise(engs, "UnexpectedAttributeTypeError")
    ELSE Raise(engs, "MissingAttributeError")

\* A faulty sink holder that applies every call to the sink of the first
\* field.
StoreSinkInFirstField(engs, id, r) ==
    [e |-> [engs EXCEPT ![id].sinks[Fields(engs[id].cls)[1].name] = r.s],
     err |-> Err(r.err)]

\* The current sink of engine id after a call on it gave [s, err].
StoreSink(engs, id, r) ==
    [e |-> [engs EXCEPT ![id].sinks[engs[id].current_key] = r.s],
     err |-> Err(r.err)]

\* Sink.emit
SinkEmit(engs, id, val) ==
    IF engs[id].current_key = NoKey THEN Raise(engs, "NoCurrentSinkError")
    ELSE IF ~\E t \in CurSink(engs[id]).generics : IsInstance(engs, val, t)
    THEN Raise(engs, "TypeEmitError")
    ELSE StoreSink(engs, id, SinkPut(CurSink(engs[id]), val))

\* Sink.close
SinkCloseCurrent(engs, id) ==
    IF engs[id].current_key = NoKey THEN Raise(engs, "NoCurrentSinkError")
    ELSE StoreSink(engs, id, SinkClose(CurSink(engs[id])))

\* Sink.ensure_closed
SinkEnsureClosedCurrent(engs, id) ==
    IF engs[id].current_key = NoKey THEN Raise(engs, "NoCurrentSinkError")
    ELSE StoreSink(engs, id, SinkEnsureClosed(CurSink(engs[id])))

\* Sink.create_and_emit_nested: the new instance is the next engine; when
\* the emit raises, the instance was never stored and is dropped.
SinkCreateAndEmitNested(engs, id) ==
    IF engs[id].current_key = NoKey THEN Raise(engs, "NoCurrentSinkError")
    ELSE IF ~IsJMuxClass(get_underlying_main_generic(CurSink(engs[id]).generics))
    THEN Raise(engs, "TypeEmitError")
    ELSE With(SinkEmit(Append(engs,
                              NewEngine(get_underlying_main_generic(
                                            CurSink(engs[id]).generics))),
                       id, JMuxV(Len(engs) + 1)),
              LAMBDA r : IF Failed(r) THEN [e |-> engs, err |-> r.err] ELSE r)


(***************************************************************************)
(* JMux.feed_char and its helpers.  get_sink_type is compared by the sink  *)
(* type's value ("StreamableValues" / "AwaitableValue").                   *)
(***************************************************************************)
RECURSIVE FeedChar(_, _, _)

\* A faulty forward_char that swallows what the nested feed_char raises.
SinkForwardCharSwallowing(engs, id, ch) ==
    IF engs[id].current_key = NoKey THEN Raise(engs, "NoCurrentSinkError")
    ELSE With(get_current(CurSink(engs[id])),
              LAMBDA cur :
                IF ~cur.ok THEN Raise(engs, "ValueError")
                ELSE IF cur.v.t # "JMux" THEN Raise(engs, "TypeEmitError")
                ELSE With(FeedChar(engs, cur.v.v[1], ch),
                          LAMBDA r : Ok(r.e)))

\* Sink.forward_char
SinkForwardChar(engs, id, ch) ==
    IF engs[id].current_key = NoKey THEN Raise(engs, "NoCurrentSinkError")
    ELSE With(get_current(CurSink(engs[id])),
              LAMBDA cur :
                IF ~cur.ok THEN Raise(engs, "ValueError")
                ELSE IF cur.v.t # "JMux" THEN Raise(engs, "TypeEmitError")
                ELSE FeedChar(engs, cur.v.v[1], ch))

\* The decoder of engine id after a call on it gave [d, err].
StoreDecoder(engs, id, r) ==
    [e |-> [engs EXCEPT ![id].decoder = r.d], err |-> Err(r.err)]

\* self._decoder.push(ch): a raise in the decoder keeps what it had done.
DecoderPushIn(engs, id, ch) ==
    StoreDecoder(engs, id, DecoderPush(engs[id].decoder, ch))

\* self._decoder.reset()
DecoderResetIn(engs, id) == [engs EXCEPT ![id].decoder = DecoderReset(@)]

\* self._pda.set_state(s)
SetStateIn(engs, id, s) == [engs EXCEPT ![id] = set_state(@, s)]

\* JMux._assert_primitive_character_allowed_in_state: TRUE when it returns,
\* FALSE when it raises UnexpectedCharacterError.
PrimitiveCharacterAllowed(g, ch) ==
    IF g.state = "parsing_integer"
    THEN ch \in Chars(<<"0", "1", "2", "3", "4", "5", "6", "7", "8", "9">>)
    ELSE IF g.state = "parsing_float"
    THEN ch \in Chars(<<"0", "1", "2", "3", "4", "5", "6", "7", "8", "9",
                        "-", "+", "e", "E", ".">>)
    ELSE IF g.state = "parsing_boolean"
    THEN /\ ch \in Chars(<<"t", "r", "u", "e", "f", "a", "l", "s">>)
         /\ \/ StartsWith(Str(<<"t", "r", "u", "e">>), Append(g.decoder.buffer, ch))
            \/ StartsWith(Str(<<"f", "a", "l", "s", "e">>),
                          Append(g.decoder.buffer, ch))
    ELSE IF g.state = "parsing_null"
    THEN /\ ch \in Chars(<<"n", "u", "l">>)
         /\ StartsWith(Str(<<"n", "u", "l", "l">>), Append(g.decoder.buffer, ch))
    ELSE FALSE

\* value = float(buffer) / int(buffer); await self._sink.emit(value)
EmitParsed(engs, id, p) ==
    IF ~p.ok THEN Raise(engs, "ParsePrimitiveError")
    ELSE SinkEmit(engs, id, p.v)

\* int(buffer) as a value
PyIntValue(p) == [ok |-> p.ok, v |-> IntV(p.v)]

\* JMux._parse_primitive
ParsePrimitive(engs, id) ==
    IF engs[id].state = "parsing_null"
    THEN IF engs[id].decoder.buffer # Str(<<"n", "u", "l", "l">>)
         THEN Raise(engs, "ParsePrimitiveError")
         ELSE SinkEmit(engs, id, NoneV)
    ELSE IF engs[id].state = "parsing_boolean"
    THEN SinkEmit(engs, id,
                  BoolV(engs[id].decoder.buffer = Str(<<"t", "r", "u", "e">>)))
    ELSE IF engs[id].current_key = NoKey THEN Raise(engs, "NoCurrentSinkError")
    ELSE IF get_underlying_main_generic(CurSink(engs[id]).generics) = "float"
    THEN EmitParsed(engs, id, PyFloat(engs[id].decoder.buffer))
    ELSE EmitParsed(engs, id, PyIntValue(PyInt(engs[id].decoder.buffer, 10)))

\* The result of _handle_common__expect_value: an outcome and the returned
\* state ("None" when the character starts no value).
WithRes(r, res) == [e |-> r.e, err |-> r.err, res |-> res]

\* The state a number starts in a sink of main generic `generic`.
NumberState(generic) ==
    IF generic = "int" THEN "parsing_integer" ELSE "parsing_float"

\* A faulty test that lets a number start for any element types.
NumberAllowedAlways(generic_set) == TRUE

\* any(t in generic_set for t in (int, float))
NumberAllowed(generic_set) == \E t \in {"int", "float"} : t \in generic_set

\* JMux._handle_common__expect_value
HandleCommonExpectValue(engs, id, ch) ==
    IF engs[id].current_key = NoKey
    THEN WithRes(Raise(engs, "NoCurrentSinkError"), "None")
    ELSE
    LET generic_set == CurSink(engs[id]).generics
        generic == get_underlying_main_generic(CurSink(engs[id]).generics)
    IN IF ch = Ord("\"")
       THEN IF "str" \notin generic_set
            THEN WithRes(Raise(engs, "UnexpectedCharacterError"), "None")
            ELSE WithRes(Ok(DecoderResetIn(SetStateIn(engs, id, "parsing_string"), id)),
                         "parsing_string")
       ELSE IF ch \in Chars(<<"0", "1", "2", "3", "4", "5", "6", "7", "8", "9", "-">>)
       THEN IF ~NumberAllowed(generic_set)
            THEN WithRes(Raise(engs, "UnexpectedCharacterError"), "None")
            ELSE WithRes(Bind(DecoderPushIn(engs, id, ch),
                              LAMBDA e : Ok(SetStateIn(e, id, NumberState(generic)))),
                         NumberState(generic))
       ELSE IF ch \in Chars(<<"t", "f">>)
       THEN IF "bool" \notin generic_set
            THEN WithRes(Raise(engs, "UnexpectedCharacterError"), "None")
            ELSE WithRes(DecoderPushIn(SetStateIn(engs, id, "parsing_boolean"), id, ch),
                         "parsing_boolean")
       ELSE IF ch = Ord("n")
       THEN IF "NoneType" \notin generic_set
            THEN WithRes(Raise(engs, "UnexpectedCharacterError"), "None")
            ELSE WithRes(DecoderPushIn(SetStateIn(engs, id, "parsing_null"), id, ch),
                         "parsing_null")
       ELSE IF ch = Ord("{")
       THEN IF ~IsJMuxClass(generic)
            THEN WithRes(Raise(engs, "UnexpectedCharacterError"), "None")
            ELSE WithRes(
                   Bind(SinkCreateAndEmitNested(engs, id),
                        LAMBDA e1 :
                          Bind(SinkForwardChar(e1, id, ch),
                               LAMBDA e2 :
                                 Ok([e2 EXCEPT
                                       ![id] = push(set_state(@, "parsing_object"),
                                                    "object")]))),
                   "parsing_object")
       ELSE WithRes(Ok(engs), "None")

\* A faulty _close_context that leaves the sink open.
CloseContextKeepsSinkOpen(engs, id, new_state) ==
    Ok([engs EXCEPT ![id] = set_state(pop(@), new_state)])

\* JMux._close_context
CloseContext(engs, id, new_state) ==
    Bind(SinkCloseCurrent(engs, id),
         LAMBDA e : Ok([e EXCEPT ![id] = set_state(pop(@), new_state)]))

\* JMux._finalize, from the i-th annotation on.
RECURSIVE FinalizeFrom(_, _, _)
FinalizeFrom(engs, id, i) ==
    IF i > Len(Fields(engs[id].cls))
    THEN Ok([engs EXCEPT ![id] = set_state(pop(@), "end")])
    ELSE Bind(SinkSetCurrent(engs, id, Fields(engs[id].cls)[i].name),
              LAMBDA e1 :
                With(SinkEnsureClosedCurrent(e1, id),
                     LAMBDA r2 :
                       IF r2.err.kind = "NothingEmittedError"
                       THEN [e |-> r2.e,
                             err |-> [kind |-> "NotAllPropertiesSetError",
                                      arg |-> Fields(engs[id].cls)[i].name]]
                       ELSE IF Failed(r2) THEN r2
                       ELSE FinalizeFrom(r2.e, id, i + 1)))

\* JMux._finalize
Finalize(engs, id) == FinalizeFrom(engs, id, 1)

\* A faulty sink-type test that takes every sink for a StreamableValues.
CurrentSinkTypeAlwaysStreamable(g, kind) == kind = "StreamableValues"

\* self._sink.current_sink_type == kind
CurrentSinkTypeIs(g, kind) == get_sink_type(CurSink(g)) = kind

\* feed_char, CONTEXT: Root (top of stack "$")
RootContext(engs, id, ch) ==
    LET g == engs[id] IN
    IF g.state = "expect_key"
    THEN IF is_json_whitespace(ch) THEN Ok(engs)
         ELSE IF ch = Ord("\"")
         THEN Ok(DecoderResetIn(SetStateIn(engs, id, "parsing_key"), id))
         ELSE Raise(engs, "UnexpectedCharacterError")
    ELSE IF g.state = "parsing_key"
    THEN IF is_terminating_quote(g.decoder, ch)
         THEN IF g.decoder.buffer = <<>> THEN Raise(engs, "EmptyKeyError")
              ELSE Bind(SinkSetCurrent(engs, id, g.decoder.buffer),
                        LAMBDA e :
                          Ok(SetStateIn(DecoderResetIn(e, id), id, "expect_colon")))
         ELSE DecoderPushIn(engs, id, ch)
    ELSE IF g.state = "expect_colon"
    THEN IF is_json_whitespace(ch) THEN Ok(engs)
         ELSE IF ch = Ord(":") THEN Ok(SetStateIn(engs, id, "expect_value"))
         ELSE Raise(engs, "UnexpectedCharacterError")
    ELSE IF g.state = "expect_value"
    THEN IF is_json_whitespace(ch) THEN Ok(engs)
         ELSE With(HandleCommonExpectValue(engs, id, ch),
                   LAMBDA r :
                     IF Failed(r) THEN [e |-> r.e, err |-> r.err]
                     ELSE IF r.res # "None"
                     THEN IF /\ CurrentSinkTypeIs(r.e[id], "StreamableValues")
                             /\ r.res # "parsing_string"
                          THEN Raise(r.e, "UnexpectedCharacterError")
                          ELSE Ok(r.e)
                     ELSE IF ch = Ord("[")
                     THEN Ok([engs EXCEPT
                                ![id] = push(set_state(@, "expect_value"), "array")])
                     ELSE Raise(engs, "UnexpectedCharacterError"))
    ELSE IF g.state = "parsing_string"
    THEN IF is_terminating_quote(g.decoder, ch)
         THEN Bind(IF CurrentSinkTypeIs(g, "AwaitableValue")
                   THEN SinkEmit(engs, id, StrV(g.decoder.buffer))
                   ELSE Ok(engs),
                   LAMBDA e1 :
                     Bind(SinkCloseCurrent(DecoderResetIn(e1, id), id),
                          LAMBDA e2 :
                            Ok(SetStateIn(e2, id, "expect_comma_or_eoc"))))
         ELSE Bind(DecoderPushIn(engs, id, ch),
                   LAMBDA e :
                     IF CurrentSinkTypeIs(g, "StreamableValues")
                     THEN SinkEmit(e, id, StrV(<<ch>>))
                     ELSE Ok(e))
    ELSE IF g.state \in PRIMITIVE_STATES
    THEN IF ch \notin Chars(<<",", "}">>)
         THEN IF ~PrimitiveCharacterAllowed(g, ch)
              THEN Raise(engs, "UnexpectedCharacterError")
              ELSE DecoderPushIn(engs, id, ch)
         ELSE Bind(ParsePrimitive(engs, id),
                   LAMBDA e1 :
                     Bind(SinkCloseCurrent(e1, id),
                          LAMBDA e2 :
                            With(SetStateIn(DecoderResetIn(e2, id), id, "expect_key"),
                                 LAMBDA e3 :
                                   IF ch = Ord("}") THEN Finalize(e3, id)
                                   ELSE Ok(e3))))
    ELSE IF g.state = "expect_comma_or_eoc"
    THEN IF is_json_whitespace(ch) THEN Ok(engs)
         ELSE IF ch = Ord(",") THEN Ok(SetStateIn(engs, id, "expect_key"))
         ELSE IF ch = Ord("}") THEN Finalize(engs, id)
         ELSE Raise(engs, "UnexpectedCharacterError")
    ELSE Ok(engs)

\* A faulty test that takes no character for a `[`.
IsOpeningBracketNever(ch) == FALSE

\* feed_char, CONTEXT: Array: if ch == "["
IsOpeningBracket(ch) == ch = Ord("[")

\* A faulty test that lets every sink take the strings of an array.
StringInArrayIllegalNever(g) == FALSE

\* feed_char, CONTEXT: Array, parsing_string: the current sink is an
\* AwaitableValue
StringInArrayIllegal(g) == CurrentSinkTypeIs(g, "AwaitableValue")

\* feed_char, CONTEXT: Array (top of stack "array")
ArrayContext(engs, id, ch) ==
    LET g == engs[id] IN
    IF IsOpeningBracket(ch) THEN Raise(engs, "UnexpectedCharacterError")
    ELSE IF g.state = "expect_value"
    THEN IF is_json_whitespace(ch) THEN Ok(engs)
         ELSE With(HandleCommonExpectValue(engs, id, ch),
                   LAMBDA r :
                     IF Failed(r) THEN [e |-> r.e, err |-> r.err]
                     ELSE IF r.res # "None" THEN Ok(r.e)
                     ELSE IF ch = Ord("]")
                     THEN CloseContext(engs, id, "expect_comma_or_eoc")
                     ELSE Raise(engs, "UnexpectedCharacterError"))
    ELSE IF g.state = "parsing_string"
    THEN IF StringInArrayIllegal(g)
         THEN Raise(engs, "UnexpectedCharacterError")
         ELSE IF is_terminating_quote(g.decoder, ch)
         THEN Bind(SinkEmit(engs, id, StrV(g.decoder.buffer)),
                   LAMBDA e :
                     Ok(SetStateIn(DecoderResetIn(e, id), id,
                                   "expect_comma_or_eoc")))
         ELSE DecoderPushIn(engs, id, ch)
    ELSE IF g.state \in PRIMITIVE_STATES
    THEN IF ch \notin Chars(<<",", "]">>)
         THEN IF ~PrimitiveCharacterAllowed(g, ch)
              THEN Raise(engs, "UnexpectedCharacterError")
              ELSE DecoderPushIn(engs, id, ch)
         ELSE Bind(ParsePrimitive(engs, id),
                   LAMBDA e1 :
                     IF ch = Ord(",")
                     THEN Ok(SetStateIn(DecoderResetIn(e1, id), id, "expect_value"))
                     ELSE CloseContext(DecoderResetIn(e1, id), id,
                                       "expect_comma_or_eoc"))
    ELSE IF g.state = "expect_comma_or_eoc"
    THEN IF is_json_whitespace(ch) THEN Ok(engs)
         ELSE IF ch = Ord(",") THEN Ok(SetStateIn(engs, id, "expect_value"))
         ELSE IF ch = Ord("]")
         THEN CloseContext(engs, id, "expect_comma_or_eoc")
         ELSE Raise(engs, "UnexpectedCharacterError")
    ELSE Ok(engs)

\* feed_char, CONTEXT: Object (top of stack "object")
ObjectContext(engs, id, ch) ==
    IF engs[id].state # "parsing_object"
    THEN Raise(engs, "UnexpectedCharacterError")
    ELSE IF ch = Ord("}")
    THEN With([engs EXCEPT ![id] = pop(@)],
              LAMBDA e1 :
                IF Top(e1[id]) = "$"
                THEN Bind(SinkCloseCurrent(e1, id),
                          LAMBDA e2 :
                            Ok(SetStateIn(e2, id, "expect_comma_or_eoc")))
                ELSE Ok(SetStateIn(e1, id, "expect_comma_or_eoc")))
    ELSE SinkForwardChar(engs, id, ch)

\* The contexts of feed_char, the character recorded in the history.
Dispatch(engs, id, ch) ==
    IF Top(engs[id]) = "None"
    THEN IF engs[id].state = "start"
         THEN IF ch = Ord("{")
              THEN Ok([engs EXCEPT ![id] = set_state(push(@, "$"), "expect_key")])
              ELSE Raise(engs, "UnexpectedCharacterError")
         ELSE Ok(engs)
    ELSE IF Top(engs[id]) = "$" THEN RootContext(engs, id, ch)
    ELSE IF Top(engs[id]) = "array" THEN ArrayContext(engs, id, ch)
    ELSE ObjectContext(engs, id, ch)

\* JMux.feed_char, on the engine `id` of `engs`.  With an empty stack only
\* state "start" is handled; in any other state the call falls through every
\* context and returns.
FeedChar(engs, id, ch) ==
    Dispatch([engs EXCEPT ![id].history = Append(@, ch)], id, ch)


(***************************************************************************)
(* The documents fed to the root engine: class of the root schema, text,   *)
(* and whether the text is a JSON object that matches the schema.          *)
(***************************************************************************)
Doc(cls, valid, text) == [cls |-> cls, valid |-> valid, text |-> Str(text)]

Q == "\""

Docs ==
    << \* streamed strings
       Doc("SStream", TRUE,
           <<"{", Q, "s", Q, ":", Q, "P", "a", "\\", "u", "0", "0", "7", "2",
             "i", "s", Q, ",", Q, "t", Q, ":", Q, "x", Q, "}">>),
       Doc("SStream", TRUE,
           <<"{", Q, "t", Q, ":", Q, "\\", "u", "d", "8", "3", "d",
             "\\", "u", "d", "e", "0", "0", "a", "\\", "n", Q, "}">>),
       Doc("SStream", TRUE, <<"{", "}">>),
       \* primitives
       Doc("SPrim", TRUE,
           <<"{", Q, "a", Q, ":", " ", Q, "x", "\\", Q, "y", Q, ",", "\n",
             Q, "n", Q, ":", "-", "4", "2", ",", Q, "b", Q, ":", "t", "r",
             "u", "e", "}">>),
       Doc("SPrim", TRUE,
           <<"{", Q, "n", Q, ":", "7", ",", Q, "f", Q, ":", "2", ".", "5",
             "e", "1", ",", Q, "o", Q, ":", "n", "u", "l", "l", ",",
             Q, "a", Q, ":", Q, Q, "}">>),
       Doc("SPrim", TRUE,
           <<"{", Q, "a", Q, ":", Q, "x", Q, ",", Q, "n", Q, ":", "1", " ",
             "}">>),
       \* the required field n never appears
       Doc("SPrim", FALSE,
           <<"{", Q, "a", Q, ":", Q, "x", Q, ",", Q, "b", Q, ":", "f", "a",
             "l", "s", "e", "}">>),
       Doc("SPrim", FALSE,
           <<"{", Q, "a", Q, ":", Q, "x", Q, "}">>),
       \* arrays
       Doc("SArr", TRUE,
           <<"{", Q, "l", Q, ":", "[", "1", ",", " ", "2", "3", "]", ",",
             Q, "t", Q, ":", "[", Q, "x", Q, ",", Q, "y", "s", Q, "]", ",",
             Q, "x", Q, ":", "[", "]", "}">>),
       Doc("SArr", TRUE,
           <<"{", Q, "e", Q, ":", "[", "n", "u", "l", "l", ",", "n", "u",
             "l", "l", "]", "}">>),
       Doc("SArr", TRUE,
           <<"{", Q, "m", Q, ":", "[", "{", Q, "a", Q, ":", Q, "x", Q, "}",
             ",", "{", Q, "a", Q, ":", Q, "y", Q, "}", "]", "}">>),
       \* nested objects
       Doc("SNest", TRUE,
           <<"{", Q, "i", Q, ":", "{", Q, "a", Q, ":", Q, "x", Q, "}", "}">>),
       Doc("SNest", TRUE,
           <<"{", Q, "i", Q, ":", "{", Q, "a", Q, ":", Q, "}", Q, "}", "}">>),
       Doc("SNest", TRUE,
           <<"{", Q, "i", Q, ":", "{", Q, "j", Q, ":", "{", Q, "a", Q, ":",
             Q, "x", Q, "}", "}", "}">>),
       Doc("SNest", TRUE,
           <<"{", Q, "i", Q, ":", "{", Q, "j", Q, ":", "{", Q, "a", Q, ":",
             Q, "x", Q, "}", ",", Q, "a", Q, ":", Q, "y", Q, "}", "}">>),
       Doc("SDeep", TRUE,
           <<"{", Q, "i", Q, ":", "{", Q, "j", Q, ":", "{", Q, "a", Q, ":",
             Q, "x", Q, "}", "}", ",", Q, "y", Q, ":", Q, "x", Q, "}">>),
       \* malformed
       Doc("SPrim", FALSE,
           <<"{", Q, "a", Q, ":", Q, "x", Q, ",", Q, "a", Q, ":", Q, "y", Q,
             ",", Q, "n", Q, ":", "1", "}">>),
       Doc("SPrim", FALSE,
           <<"{", Q, "n", Q, ":", "[", "1", ",", "2", "]", ",", Q, "a", Q,
             ":", Q, "x", Q, "}">>),
       \* a key that names an attribute of the instance that is no sink
       Doc("SPrim", FALSE,
           <<"{", Q, "_", "p", "d", "a", Q, ":", "1", "}">>),
       \* a low surrogate with no high surrogate before it
       Doc("SPrim", TRUE,
           <<"{", Q, "a", Q, ":", Q, "\\", "u", "d", "c", "0", "1", Q, ",",
             Q, "n", Q, ":", "1", "}">>),
       \* a high surrogate followed by a code unit that is no low surrogate
       Doc("SPrim", FALSE,
           <<"{", Q, "a", Q, ":", Q, "\\", "u", "d", "8", "0", "0",
             "\\", "u", "0", "0", "6", "1", Q, "}">>),
       \* an array of strings for an AwaitableValue field
       Doc("SPrim", FALSE,
           <<"{", Q, "a", Q, ":", "[", Q, "x", Q, "]", ",", Q, "n", Q, ":",
             "1", "}">>),
       \* a key that ends inside a unicode escape
       Doc("SPrim", FALSE,
           <<"{", Q, "b", "\\", "u", Q, ":", "t", "r", "u", "e", "}">>),
       \* a streamed field that occurs twice
       Doc("SArr", FALSE,
           <<"{", Q, "l", Q, ":", "[", "1", "]", ",", Q, "l", Q, ":", "[",
             "2", "]", "}">>)
    >>

\* The characters a producer may feed off the script.
Alphabet ==
    Chars(<<"{", "}", "[", "]", Q, ":", ",", "\\", " ", "\n", "-", ".",
            "0", "1", "e", "t", "f", "n", "u", "a", "x">>)

\* How many characters a producer feeds after leaving its script.
MaxStray == 1

(***************************************************************************)
(* State.  engines[1] is the root JMux instance, the others are the nested *)
(* instances in creation order.  doc is the script of the producer, stray  *)
(* the number of characters fed off the script, err the outcome of the     *)
(* last feed_char and raised the exceptions feed_char has raised so far    *)
(* (the caller catches them and goes on).  tasks and                       *)
(* ready are the event loop: the state of each task and the loop's FIFO    *)
(* queue of tasks ready to run.  sink is a StreamableValues driven on its  *)
(* own, and sent the values put into it (or the calls made on it).         *)
(***************************************************************************)
VARIABLES engines, doc, stray, err, raised, tasks, ready, sink, sent

vars == <<engines, doc, stray, err, raised, tasks, ready, sink, sent>>

root == engines[1]
\* The number of characters of the script fed so far.
pos == Len(root.history) - stray

NoTasks == [t \in {} |-> 0]

Init ==
    /\ doc \in 1..Len(Docs)
    /\ engines = <<NewEngine(Docs[doc].cls)>>
    /\ stray = 0
    /\ err = NoErr
    /\ raised = {}
    /\ tasks = NoTasks
    /\ ready = <<>>
    /\ sink = NewSink("StreamableValues", {"str"})
    /\ sent = <<>>

\* The outcome r of a feed_char, taken by a caller that goes on after an
\* exception.
Fed(r) ==
    /\ engines' = r.e
    /\ err' = r.err
    /\ raised' = raised \cup (IF Failed(r) THEN {r.err.kind} ELSE {})

\* await root.feed_char(ch)
Feed(ch) == Fed(FeedChar(engines, 1, ch))

\* The producer feeds the next character of its script.
FeedScript ==
    /\ stray = 0
    /\ pos < Len(Docs[doc].text)
    /\ Feed(Docs[doc].text[pos + 1])
    /\ UNCHANGED <<doc, stray, tasks, ready, sink, sent>>

\* The producer leaves its script and feeds an arbitrary character.
FeedStray ==
    /\ stray < MaxStray
    /\ \E ch \in Alphabet : Feed(ch)
    /\ stray' = stray + 1
    /\ UNCHANGED <<doc, tasks, ready, sink, sent>>

Next == FeedScript \/ FeedStray

Spec == Init /\ [][Next]_vars


(***************************************************************************)
(* The event loop (src/test/test_json_demux.py): gather(produce(),         *)
(* consume_<field>()...) makes task 0 of the producer and task k of the    *)
(* consumer of the k-th field, and runs them from a FIFO queue.  A task    *)
(* runs until it suspends.  put and close never suspend (the queue is      *)
(* unbounded); they schedule the consumer waiting on the sink.  The        *)
(* producer suspends in asyncio.sleep(0) after every feed_char, which      *)
(* puts it back at the end of the queue; an exception ends its task.       *)
(***************************************************************************)
\* StreamableValues._stream, run from a resumption until it suspends in
\* queue.get(), ends, or raises: the sink, the items yielded, the position.
RECURSIVE Stream(_, _)
Stream(s, got) ==
    IF s.queue = <<>> THEN [s |-> s, got |-> got, pc |-> "waiting"]
    ELSE LET item == Head(s.queue)
             s1 == [s EXCEPT !.queue = Tail(@)]
         IN IF IsNone(item) /\ s1.closed
            THEN [s |-> s1, got |-> got, pc |-> "done"]
            ELSE IF IsNone(item)
            THEN [s |-> s1, got |-> got, pc |-> "failed"]
            ELSE Stream(s1, Append(got, item))

\* AwaitableValue._wait
Wait(s, got) ==
    IF s.event THEN [s |-> s, got |-> Append(got, s.value), pc |-> "done"]
    ELSE [s |-> s, got |-> got, pc |-> "waiting"]

\* `async for x in sink` / `await sink`
Consume(s, got) ==
    IF s.kind = "StreamableValues" THEN Stream(s, got) ELSE Wait(s, got)

\* A consumer suspended on the sink is scheduled by a put or a close.
Signalled(s) ==
    IF s.kind = "StreamableValues" THEN s.queue # <<>> ELSE s.event

Producer == 0

FieldIndex(cls, name) ==
    CHOOSE i \in 1..Len(Fields(cls)) : Fields(cls)[i].name = name

\* The consumers a feed_char has scheduled, in the order of the puts: the
\* sink that was current first, then the sinks finalize closes, in
\* declaration order.
Woken(before, after) ==
    LET n == Len(Fields(before.cls))
        cur == IF before.current_key = NoKey THEN 0
               ELSE FieldIndex(before.cls, before.current_key)
        order == IF cur = 0 THEN [i \in 1..n |-> i]
                 ELSE <<cur>> \o SelectSeq([i \in 1..n |-> i],
                                          LAMBDA i : i # cur)
    IN SelectSeq(order,
                 LAMBDA k : /\ tasks[k].pc = "waiting"
                            /\ Signalled(after.sinks[Fields(before.cls)[k].name]))

\* A producer that goes straight on to its next character.
ProducerKeepsRunning(rdy, woken) == <<Producer>> \o Tail(rdy) \o woken

\* The queue after the producer's step: the consumers it has scheduled, then
\* the producer itself, put back by asyncio.sleep(0).
ProducerYields(rdy, woken) == Tail(rdy) \o woken \o <<Producer>>

InitAsync ==
    /\ doc \in 1..Len(Docs)
    /\ engines = <<NewEngine(Docs[doc].cls)>>
    /\ stray = 0
    /\ err = NoErr
    /\ raised = {}
    /\ tasks = [k \in 0..Len(Fields(Docs[doc].cls)) |->
                  [pc |-> "ready", got |-> <<>>]]
    /\ ready = [i \in 1..(Len(Fields(Docs[doc].cls)) + 1) |-> i - 1]
    /\ sink = NewSink("StreamableValues", {"str"})
    /\ sent = <<>>

\* The loop after a feed_char of the producer gave r and scheduled woken.
ProducerFed(r, woken) ==
    /\ Fed(r)
    /\ ready' = IF Failed(r) THEN Tail(ready) \o woken
                ELSE ProducerYields(ready, woken)
    /\ tasks' = [k \in DOMAIN tasks |->
                   IF k = Producer /\ Failed(r)
                   THEN [tasks[k] EXCEPT !.pc = "failed"]
                   ELSE IF \E i \in 1..Len(woken) : woken[i] = k
                   THEN [tasks[k] EXCEPT !.pc = "ready"]
                   ELSE tasks[k]]

ProducerFeeding(r) == ProducerFed(r, Woken(root, r.e[1]))

\* produce(): feed the next character, then sleep(0); return at the end of
\* the stream.
RunProducer ==
    /\ ready # <<>> /\ Head(ready) = Producer
    /\ IF pos < Len(Docs[doc].text)
       THEN ProducerFeeding(FeedChar(engines, 1, Docs[doc].text[pos + 1]))
       ELSE /\ tasks' = [tasks EXCEPT ![Producer].pc = "done"]
            /\ ready' = Tail(ready)
            /\ UNCHANGED <<engines, err, raised>>
    /\ UNCHANGED <<doc, stray, sink, sent>>

\* The loop after the consumer k of the field `name` ran to r.
Consumed(k, name, r) ==
    /\ engines' = [engines EXCEPT ![1].sinks[name] = r.s]
    /\ tasks' = [tasks EXCEPT ![k] = [pc |-> r.pc, got |-> r.got]]
    /\ ready' = Tail(ready)

\* consume_<field>(): iterate or await the sink of the k-th field.
RunConsumer ==
    /\ ready # <<>> /\ Head(ready) # Producer
    /\ Consumed(Head(ready), Fields(root.cls)[Head(ready)].name,
                Consume(root.sinks[Fields(root.cls)[Head(ready)].name],
                        tasks[Head(ready)].got))
    /\ UNCHANGED <<doc, stray, err, raised, sink, sent>>

NextAsync == RunProducer \/ RunConsumer

SpecAsync == InitAsync /\ [][NextAsync]_vars

\* The loop has nothing left to run.
Idle == ready = <<>>

Consumers == DOMAIN tasks \ {Producer}

(***************************************************************************)
(* A producer that feeds the whole document before any consumer runs       *)
(* (src/tests/test_demux__parse.py: `for ch in stream: await               *)
(* s_object.feed_char(ch)`, which never suspends; the consumers are        *)
(* started when it has returned, as in src/tests/test_awaitables.py).  An  *)
(* exception ends the producer and no consumer is started.                 *)
(***************************************************************************)
InitLate ==
    /\ doc \in 1..Len(Docs)
    /\ engines = <<NewEngine(Docs[doc].cls)>>
    /\ stray = 0
    /\ err = NoErr
    /\ raised = {}
    /\ tasks = [k \in 0..Len(Fields(Docs[doc].cls)) |->
                  [pc |-> "ready", got |-> <<>>]]
    /\ ready = <<Producer>>
    /\ sink = NewSink("StreamableValues", {"str"})
    /\ sent = <<>>

\* The loop after a feed_char of the producer gave r: the producer goes
\* straight on, or ends with the exception.
ProducerFedAll(r) ==
    /\ Fed(r)
    /\ ready' = IF Failed(r) THEN <<>> ELSE ready
    /\ tasks' = IF Failed(r) THEN [tasks EXCEPT ![Producer].pc = "failed"]
                ELSE tasks

\* for ch in stream: await feed_char(ch); then the consumers are started in
\* the order of the fields.
RunProducerAll ==
    /\ ready # <<>> /\ Head(ready) = Producer
    /\ IF pos < Len(Docs[doc].text)
       THEN ProducerFedAll(FeedChar(engines, 1, Docs[doc].text[pos + 1]))
       ELSE /\ tasks' = [tasks EXCEPT ![Producer].pc = "done"]
            /\ ready' = [i \in 1..Len(Fields(root.cls)) |-> i]
            /\ UNCHANGED <<engines, err, raised>>
    /\ UNCHANGED <<doc, stray, sink, sent>>

NextLate == RunProducerAll \/ RunConsumer

SpecLate == InitLate /\ [][NextLate]_vars

(***************************************************************************)
(* A StreamableValues on its own (src/tests/test_awaitables.py): a driver  *)
(* puts values of the element type and then closes, and task 1 iterates    *)
(* the sink.  The driver may or may not yield between its calls, so the    *)
(* consumer runs at any point where it is able to run.                     *)
(***************************************************************************)
ElemTypes == {"int", "float", "str", "bool", "NoneType", "SLeaf"}

\* Some values of each element type.
ElemValues(t) ==
    CASE t = "int" -> {IntV(0), IntV(7)}
      [] t = "float" -> {FloatV(1, 25, 0 - 1)}
      [] t = "str" -> {StrV(<<>>), StrV(Str(<<"a">>))}
      [] t = "bool" -> {BoolV(TRUE), BoolV(FALSE)}
      [] t = "NoneType" -> {NoneV}
      [] t = "SLeaf" -> {JMuxV(1)}

\* How many values the driver puts at most.
MaxPuts == 2

InitSink ==
    /\ \E t \in ElemTypes : sink = NewSink("StreamableValues", {t})
    /\ sent = <<>>
    /\ tasks = [k \in {1} |-> [pc |-> "ready", got |-> <<>>]]
    /\ ready = <<>>
    /\ engines = <<>>
    /\ doc = 1
    /\ stray = 0
    /\ err = NoErr
    /\ raised = {}

\* The consumer's position after a put or a close on its sink.
Scheduled(t, s) ==
    IF t.pc = "waiting" /\ Signalled(s) THEN [t EXCEPT !.pc = "ready"] ELSE t

\* await sink.put(v)
DriverPut ==
    /\ ~sink.closed
    /\ Len(sent) < MaxPuts
    /\ \E v \in ElemValues(get_underlying_main_generic(sink.generics)) :
         LET r == StreamablePut(sink, v) IN
         /\ r.err = "ok"
         /\ sink' = r.s
         /\ sent' = Append(sent, v)
         /\ tasks' = [tasks EXCEPT ![1] = Scheduled(@, r.s)]
    /\ UNCHANGED <<engines, doc, stray, err, raised, ready>>

\* await sink.close()
DriverClose ==
    /\ ~sink.closed
    /\ LET r == StreamableClose(sink) IN
         /\ r.err = "ok"
         /\ sink' = r.s
         /\ tasks' = [tasks EXCEPT ![1] = Scheduled(@, r.s)]
    /\ UNCHANGED <<engines, doc, stray, err, raised, ready, sent>>

\* async for item in sink
SinkConsumer ==
    /\ tasks[1].pc = "ready"
    /\ LET r == Stream(sink, tasks[1].got) IN
         /\ sink' = r.s
         /\ tasks' = [tasks EXCEPT ![1] = [pc |-> r.pc, got |-> r.got]]
    /\ UNCHANGED <<engines, doc, stray, err, raised, ready, sent>>

NextSink == DriverPut \/ DriverClose \/ SinkConsumer

SpecSink == InitSink /\ [][NextSink]_vars

(***************************************************************************)
(* A sink of either variant on its own, called in any order                *)
(* (src/tests/test_awaitables.py): a caller puts, closes and               *)
(* ensure_closes, catching the exceptions and going on, and task 1 awaits  *)
(* or iterates the sink whenever it is able to run.  sent is the log of    *)
(* the calls made: the operation, its argument and its outcome.            *)
(***************************************************************************)
\* How many calls the caller makes at most.
MaxCalls == 3

\* The element type sets a sink of the kind is declared with: one type, or
\* for an AwaitableValue a type and None.
SinkGenerics(kind) ==
    IF kind = "StreamableValues" THEN {{t} : t \in ElemTypes}
    ELSE {{t} : t \in ElemTypes}
           \cup {{t, "NoneType"} : t \in ElemTypes \ {"NoneType"}}

\* Some values of the element type set.
PutValues(generics) == UNION {ElemValues(t) : t \in generics}

InitCalls ==
    /\ \E kind \in {"StreamableValues", "AwaitableValue"} :
         \E g \in SinkGenerics(kind) : sink = NewSink(kind, g)
    /\ sent = <<>>
    /\ tasks = [k \in {1} |-> [pc |-> "ready", got |-> <<>>]]
    /\ ready = <<>>
    /\ engines = <<>>
    /\ doc = 1
    /\ stray = 0
    /\ err = NoErr
    /\ raised = {}

\* The call op(val) on the sink returned or raised as r says.
Called(op, val, r) ==
    /\ sink' = r.s
    /\ sent' = Append(sent, [op |-> op, val |-> val, err |-> r.err])
    /\ err' = Err(r.err)
    /\ raised' = raised \cup (IF r.err = "ok" THEN {} ELSE {r.err})
    /\ tasks' = [tasks EXCEPT ![1] = Scheduled(@, r.s)]
    /\ UNCHANGED <<engines, doc, stray, ready>>

\* await sink.put(v)
CallPut ==
    /\ Len(sent) < MaxCalls
    /\ \E v \in PutValues(sink.generics) : Called("put", v, SinkPut(sink, v))

\* await sink.close()
CallClose ==
    /\ Len(sent) < MaxCalls
    /\ Called("close", NoneV, SinkClose(sink))

\* await sink.ensure_closed()
CallEnsureClosed ==
    /\ Len(sent) < MaxCalls
    /\ Called("ensure_closed", NoneV, SinkEnsureClosed(sink))

\* The consumer after it ran to r.
CallConsumed(r) ==
    /\ sink' = r.s
    /\ tasks' = [tasks EXCEPT ![1] = [pc |-> r.pc, got |-> r.got]]

\* `await sink` / `async for item in sink`
CallConsumer ==
    /\ tasks[1].pc = "ready"
    /\ CallConsumed(Consume(sink, tasks[1].got))
    /\ UNCHANGED <<engines, doc, stray, err, raised, ready, sent>>

NextCalls == CallPut \/ CallClose \/ CallEnsureClosed \/ CallConsumer

SpecCalls == InitCalls /\ [][NextCalls]_vars

(***************************************************************************)
(* Properties of the engine, checked under Spec.                           *)
(***************************************************************************)
\* The script was fed to its end and nothing else was.
ScriptDone == stray = 0 /\ pos = Len(Docs[doc].text)

\* The nested instances an engine has emitted into its sinks.
NestedOf(g) ==
    {v.v[1] : v \in {w \in UNION {IF g.sinks[k].kind = "StreamableValues"
                                    THEN {g.sinks[k].queue[i] :
                                            i \in 1..Len(g.sinks[k].queue)}
                                    ELSE {g.sinks[k].value} :
                                  k \in DOMAIN g.sinks} : w.t = "JMux"}}

AllSinksClosed(g) == \A k \in DOMAIN g.sinks : SinkIsClosed(g.sinks[k])

\* C1: while a root-level string is streamed into a StreamableValues[str]
\* sink, after every prefix of the input the items put into the sink are,
\* item by item, the characters of the string decoded so far.
C1_StreamedItemsAreDecodedChars ==
    ( /\ stray = 0 /\ raised = {}
      /\ Top(root) = "$" /\ root.state = "parsing_string"
      /\ root.current_key # NoKey
      /\ CurSink(root).kind = "StreamableValues" )
    => CurSink(root).queue =
         [i \in 1..Len(root.decoder.buffer) |-> StrV(<<root.decoder.buffer[i]>>)]

\* C2: once the final `}` of a valid document matching the schema has been
\* fed, the engine is in state end with an empty stack, every top-level sink
\* is closed, and no close has failed with SinkClosedError.
C2_ValidDocumentEndsClosed ==
    (Docs[doc].valid /\ ScriptDone)
    => /\ root.state = "end"
       /\ root.stack = <<>>
       /\ AllSinksClosed(root)
       /\ "SinkClosedError" \notin raised

\* C3: an engine in object context leaves it (pops `object`) only on the
\* character at which its nested engine reaches state end.
C3_ParentPopsOnlyWhenNestedEnds ==
    [][\A id \in DOMAIN engines :
         ( /\ Top(engines[id]) = "object"
           /\ engines'[id].stack # engines[id].stack )
         => LET nested == get_current(CurSink(engines[id])).v.v[1]
            IN /\ engines'[nested].state = "end"
               /\ engines'[id].state = "expect_comma_or_eoc"]_vars

\* C4: whenever the outer engine is in state end, every nested instance it
\* emitted is in state end with an empty stack and all its sinks closed.
C4_NestedEnginesFinalized ==
    root.state = "end"
    => \A id \in NestedOf(root) :
         /\ engines[id].state = "end"
         /\ engines[id].stack = <<>>
         /\ AllSinksClosed(engines[id])

\* C5: once the engine is in state end, every later feed_char fails with
\* ObjectAlreadyClosedError and changes nothing.
C5_FeedAfterEndFails ==
    [][root.state = "end"
       => /\ err'.kind = "ObjectAlreadyClosedError"
          /\ [engines' EXCEPT ![1].history = root.history] = engines]_vars


\* The value _parse_primitive makes of a complete literal `buffer` in the
\* primitive state `state` for a sink of main generic `generic`.
LiteralValue(state, generic, buffer) ==
    IF state = "parsing_null" THEN NoneV
    ELSE IF state = "parsing_boolean"
    THEN BoolV(buffer = Str(<<"t", "r", "u", "e">>))
    ELSE IF generic = "float" THEN PyFloat(buffer).v
    ELSE IntV(PyInt(buffer, 10).v)

\* The event of the AwaitableValue k of engine id is set in this step, for
\* a value that is not a nested instance: a consumer awaiting it resumes.
Resumes(id, k) ==
    /\ engines[id].sinks[k].kind = "AwaitableValue"
    /\ ~engines[id].sinks[k].event
    /\ engines'[id].sinks[k].event
    /\ engines'[id].sinks[k].value.t # "JMux"

UnsetRequired ==
    {i \in 1..Len(Fields(root.cls)) :
        /\ Fields(root.cls)[i].kind = "AwaitableValue"
        /\ "NoneType" \notin Fields(root.cls)[i].generics
        /\ ~root.sinks[Fields(root.cls)[i].name].event
        /\ \/ root.state = "expect_comma_or_eoc"
           \/ Fields(root.cls)[i].name # root.current_key}

\* The root `}` is fed in this step: the engine is in root context after a
\* complete value, or at the end of a primitive that this `}` commits.
RootCloseFed ==
    /\ Top(root) = "$"
    /\ Len(root'.history) = Len(root.history) + 1
    /\ Last(root'.history) = Ord("}")
    /\ \/ root.state = "expect_comma_or_eoc"
       \/ /\ root.state \in PRIMITIVE_STATES
          /\ SinkIsClosed(root'.sinks[root.current_key])
          /\ ~SinkIsClosed(root.sinks[root.current_key])

AbsentOptional ==
    {i \in 1..Len(Fields(root.cls)) :
        /\ root.sinks[Fields(root.cls)[i].name]
             = NewSink(Fields(root.cls)[i].kind, Fields(root.cls)[i].generics)
        /\ \/ Fields(root.cls)[i].kind = "StreamableValues"
           \/ "NoneType" \in Fields(root.cls)[i].generics}

\* A `}` is fed to the root engine after a complete member of the root
\* object, or right after its `{` (no key was read and nothing has failed).
RootCloseFedBetweenMembers ==
    /\ Top(root) = "$"
    /\ \/ root.state = "expect_comma_or_eoc"
       \/ /\ root.state = "expect_key"
          /\ root.current_key = NoKey
          /\ raised = {}
    /\ Len(root'.history) = Len(root.history) + 1
    /\ Last(root'.history) = Ord("}")

\* C11: when the root `}` is fed and no required field is missing, every
\* field that has not appeared and whose sink is a StreamableValues or a
\* nullable AwaitableValue is closed by that feed_char, which raises nothing;
\* awaiting the AwaitableValue then yields None and iterating the
\* StreamableValues yields no item and terminates.
C11_AbsentOptionalFieldsClosed ==
    [][(RootCloseFedBetweenMembers /\ UnsetRequired = {})
       => /\ err'.kind = "ok"
          /\ \A i \in AbsentOptional :
               LET s == root'.sinks[Fields(root.cls)[i].name]
               IN /\ SinkIsClosed(s)
                  /\ Consume(s, <<>>).pc = "done"
                  /\ Consume(s, <<>>).got
                       = IF s.kind = "AwaitableValue" THEN <<NoneV>>
                         ELSE <<>>]_vars

\* The character ch is fed to the engine id in this step.
FedTo(id, ch) ==
    /\ id \in DOMAIN engines
    /\ Len(engines'[id].history) = Len(engines[id].history) + 1
    /\ Last(engines'[id].history) = ch

\* The character starts a JSON value of a kind that the element types of
\* the engine's current sink do not allow.
KindNotAllowed(g, ch) ==
    \/ ch = Ord("\"") /\ "str" \notin CurSink(g).generics
    \/ /\ ch \in Chars(<<"0", "1", "2", "3", "4", "5", "6", "7", "8", "9", "-">>)
       /\ "int" \notin CurSink(g).generics
       /\ "float" \notin CurSink(g).generics
    \/ ch \in Chars(<<"t", "f">>) /\ "bool" \notin CurSink(g).generics
    \/ ch = Ord("n") /\ "NoneType" \notin CurSink(g).generics
    \/ /\ ch = Ord("{")
       /\ get_underlying_main_generic(CurSink(g).generics) \notin SchemaClasses

\* C17: in state expect_value, of any engine and in root or array context,
\* a first value character of a kind the current sink's element types do
\* not allow makes feed_char raise UnexpectedCharacterError; no value is
\* started: the state stays expect_value.
C17_DisallowedValueKindFails ==
    [][\A id \in DOMAIN engines : \A ch \in Alphabet :
         ( /\ engines[id].state = "expect_value"
           /\ FedTo(id, ch)
           /\ KindNotAllowed(engines[id], ch) )
         => /\ err'.kind = "UnexpectedCharacterError"
            /\ engines'[id].state = "expect_value"
            /\ engines'[id].stack = engines[id].stack]_vars

\* C17 witness: a digit was fed where the value of the str field a starts.
C17_Witness ==
    /\ root.cls = "SPrim"
    /\ root.state = "expect_value"
    /\ root.current_key = Str(<<"a">>)
    /\ stray = 1
    /\ Last(root.history) = Ord("1")
    /\ err.kind = "UnexpectedCharacterError"

\* The characters that start a number, a boolean, null or an object.
ScalarOrObjectStart ==
    Chars(<<"0", "1", "2", "3", "4", "5", "6", "7", "8", "9", "-",
            "t", "f", "n", "{">>)

\* C18: at the root level of an engine, in state expect_value with a
\* StreamableValues as the current sink, a character that starts a number,
\* a boolean, null or an object makes feed_char raise
\* UnexpectedCharacterError whatever the element type, and nothing is put
\* into the sink: the field is not filled by a scalar or an object in place.
C18_StreamableTakesNoScalarOrObject ==
    [][\A id \in DOMAIN engines : \A ch \in ScalarOrObjectStart :
         ( /\ Top(engines[id]) = "$"
           /\ engines[id].state = "expect_value"
           /\ CurSink(engines[id]).kind = "StreamableValues"
           /\ FedTo(id, ch) )
         => /\ err'.kind = "UnexpectedCharacterError"
            /\ engines'[id].sinks = engines[id].sinks]_vars

\* C19: at the root level of an engine, in state expect_value with an
\* AwaitableValue as the current sink, a `[` makes feed_char raise
\* UnexpectedCharacterError and the array mode is not pushed.
C19_AwaitableTakesNoArray ==
    [][\A id \in DOMAIN engines :
         ( /\ Top(engines[id]) = "$"
           /\ engines[id].state = "expect_value"
           /\ CurSink(engines[id]).kind = "AwaitableValue"
           /\ FedTo(id, Ord("[")) )
         => /\ err'.kind = "UnexpectedCharacterError"
            /\ engines'[id].stack = engines[id].stack]_vars

\* C20: in state start, JSON whitespace is accepted and leaves the engine
\* in state start with an empty stack, `{` pushes the root and sets
\* expect_key, and every other character makes feed_char raise
\* UnexpectedCharacterError.
C20_StartAcceptsWhitespaceAndBrace ==
    [][\A id \in DOMAIN engines : \A ch \in Alphabet :
         (engines[id].state = "start" /\ FedTo(id, ch))
         => IF is_json_whitespace(ch)
            THEN /\ err'.kind = "ok"
                 /\ engines'[id].state = "start"
                 /\ engines'[id].stack = <<>>
            ELSE IF ch = Ord("{")
            THEN /\ engines'[id].state = "expect_key"
                 /\ engines'[id].stack = <<"$">>
            ELSE /\ err'.kind = "UnexpectedCharacterError"
                 /\ engines'[id].state = "start"
                 /\ engines'[id].stack = <<>>]_vars

\* C21: between two feed_char calls, after any input and also after a
\* feed_char that raised, the stack of every engine is empty exactly when
\* its state is start, end or error.
C21_StackEmptyIffStartEndError ==
    \A id \in DOMAIN engines :
       engines[id].stack = <<>>
         <=> engines[id].state \in {"start", "end", "error"}

\* C21 witness: a document was taken to state end, where the stack is empty,
\* and a character fed after it left the engine there.
C21_Witness ==
    /\ doc = 4
    /\ pos = Len(Docs[doc].text)
    /\ stray = 1
    /\ root.state = "end"
    /\ root.stack = <<>>

\* The sink s became s2 by receiving the value v (and perhaps a close).
Received(s, s2, v) ==
    IF s.kind = "AwaitableValue"
    THEN ~s.event /\ s2.event /\ s2.value = v
    ELSE /\ Len(s2.queue) > Len(s.queue)
         /\ s2.queue[Len(s.queue) + 1] = v
         /\ s2.last_item = v

\* The characters that end a number, boolean or null where the engine is:
\* `,` and the closing bracket of its context.
PrimitiveEnd(g) ==
    IF Top(g) = "array" THEN Chars(<<",", "]">>) ELSE Chars(<<",", "}">>)

\* C22: at the `,` or closing bracket that ends a boolean literal, the
\* engine puts true into the current sink when the buffer is `true` and
\* false when it is `false`; for any other buffer feed_char raises
\* ParsePrimitiveError and puts nothing into the sink.
C22_BooleanLiteralAtTerminator ==
    [][\A id \in DOMAIN engines : \A ch \in Alphabet :
         ( /\ engines[id].state = "parsing_boolean"
           /\ ch \in PrimitiveEnd(engines[id])
           /\ ~CurSink(engines[id]).event
           /\ FedTo(id, ch) )
         => IF engines[id].decoder.buffer = Str(<<"t", "r", "u", "e">>)
            THEN Received(CurSink(engines[id]), CurSink(engines'[id]),
                          BoolV(TRUE))
            ELSE IF engines[id].decoder.buffer = Str(<<"f", "a", "l", "s", "e">>)
            THEN Received(CurSink(engines[id]), CurSink(engines'[id]),
                          BoolV(FALSE))
            ELSE /\ err'.kind = "ParsePrimitiveError"
                 /\ engines'[id].sinks = engines[id].sinks]_vars

\* The buffer of the engine holds a complete literal of the kind its state
\* is parsing.
LiteralComplete(g) ==
    IF g.state = "parsing_null" THEN g.decoder.buffer = Str(<<"n", "u", "l", "l">>)
    ELSE IF g.state = "parsing_boolean"
    THEN g.decoder.buffer \in {Str(<<"t", "r", "u", "e">>),
                               Str(<<"f", "a", "l", "s", "e">>)}
    ELSE IF get_underlying_main_generic(CurSink(g).generics) = "float"
    THEN PyFloat(g.decoder.buffer).ok
    ELSE PyInt(g.decoder.buffer, 10).ok

\* C23: at the root level, JSON whitespace fed while a number, boolean or
\* null is being parsed ends the literal: when the literal is complete its
\* value is put into the current sink and feed_char raises nothing, and when
\* it is not feed_char raises ParsePrimitiveError.
C23_WhitespaceEndsLiteral ==
    [][\A id \in DOMAIN engines : \A ch \in Alphabet :
         ( /\ Top(engines[id]) = "$"
           /\ engines[id].state \in PRIMITIVE_STATES
           /\ is_json_whitespace(ch)
           /\ ~CurSink(engines[id]).event
           /\ FedTo(id, ch) )
         => IF LiteralComplete(engines[id])
            THEN /\ err'.kind = "ok"
                 /\ Received(CurSink(engines[id]), CurSink(engines'[id]),
                             LiteralValue(engines[id].state,
                               get_underlying_main_generic(
                                 CurSink(engines[id]).generics),
                               engines[id].decoder.buffer))
            ELSE err'.kind = "ParsePrimitiveError"]_vars

\* The engine has been fed its `{` and nothing but whitespace since.
JustOpened(g) ==
    /\ g.state = "expect_key"
    /\ g.history # <<>>
    /\ g.history[1] = Ord("{")
    /\ \A i \in 2..Len(g.history) : is_json_whitespace(g.history[i])

\* No field of the schema is required: each is a StreamableValues or an
\* AwaitableValue allowing None.
NoFieldRequired(cls) ==
    \A i \in 1..Len(Fields(cls)) :
       \/ Fields(cls)[i].kind = "StreamableValues"
       \/ "NoneType" \in Fields(cls)[i].generics

\* C24: a `}` fed where a key is expected: right after the `{` of a schema
\* without required fields, feed_char succeeds and the engine is in state
\* end with every sink closed; after a comma it raises
\* UnexpectedCharacterError.
C24_EmptyObjectAndTrailingComma ==
    [][\A id \in DOMAIN engines :
         ( /\ Top(engines[id]) = "$"
           /\ engines[id].state = "expect_key"
           /\ FedTo(id, Ord("}")) )
         => IF JustOpened(engines[id])
            THEN NoFieldRequired(engines[id].cls)
                 => /\ err'.kind = "ok"
                    /\ engines'[id].state = "end"
                    /\ AllSinksClosed(engines'[id])
            ELSE err'.kind = "UnexpectedCharacterError"]_vars

\* C25: in array context a `[` fed in any state, inside a string element
\* too, makes feed_char raise UnexpectedCharacterError and pushes nothing;
\* no stack holds the array mode twice.
C25_NoNestedArrays ==
    [][\A id \in DOMAIN engines :
         /\ (Top(engines[id]) = "array" /\ FedTo(id, Ord("[")))
            => /\ err'.kind = "UnexpectedCharacterError"
               /\ engines'[id].stack = engines[id].stack
               /\ engines'[id].state = engines[id].state
         /\ Cardinality({i \in 1..Len(engines'[id].stack) :
                           engines'[id].stack[i] = "array"}) <= 1]_vars

\* C25 witness: a `[` was fed inside the array of the field l and rejected.
C25_Witness ==
    /\ root.cls = "SArr"
    /\ root.stack = <<"$", "array">>
    /\ root.current_key = Str(<<"l">>)
    /\ stray = 1
    /\ Last(root.history) = Ord("[")
    /\ err.kind = "UnexpectedCharacterError"

\* C26: the engine does not keep the document: after the first n
\* characters of the script have been fed (n >= 1), no field of the
\* engine's own state holds those n characters.
C26_EngineKeepsNoDocument ==
    (stray = 0 /\ pos >= 1)
    => root.history # SubSeq(Docs[doc].text, 1, pos)

\* C27: when a character is forwarded to a nested engine, at any depth and
\* also to a nested engine that is an element of an array, and the nested
\* feed_char raises, the feed_char of the root raises the same error for
\* that character.
C27_NestedErrorsPropagate ==
    [][\A id \in DOMAIN engines \ {1} : \A ch \in Alphabet :
         (FedTo(id, ch) /\ Failed(FeedChar(engines, id, ch)))
         => /\ err' = FeedChar(engines, id, ch).err
            /\ Last(root'.history) = ch
            /\ Len(root'.history) = Len(root.history) + 1]_vars

\* C27 witness: a digit fed where the innermost of three engines expects a
\* key is rejected by that engine, and the root's feed_char raised the error.
C27_Witness ==
    /\ doc = 14
    /\ Len(engines) = 3
    /\ stray = 1
    /\ engines[3].state = "expect_key"
    /\ Last(engines[3].history) = Ord("1")
    /\ Last(root.history) = Ord("1")
    /\ err.kind = "UnexpectedCharacterError"

\* The unescaped closing quote of a key is fed to the engine id.
KeyCloseFed(id) ==
    /\ engines[id].state = "parsing_key"
    /\ is_terminating_quote(engines[id].decoder, Ord("\""))
    /\ FedTo(id, Ord("\""))

\* The key was accepted: the sink of the field it names is the current
\* sink, reset was called on the decoder (it empties the buffer and drops a
\* pending backslash) and the state is expect_colon.
KeyAccepted(id) ==
    /\ err'.kind = "ok"
    /\ engines'[id].current_key = engines[id].decoder.buffer
    /\ engines'[id].decoder.buffer = <<>>
    /\ ~engines'[id].decoder.string_escape
    /\ engines'[id].state = "expect_colon"
    /\ engines'[id].sinks = engines[id].sinks

\* C28 as claimed: at the unescaped closing quote of a key, an empty key
\* raises EmptyKeyError, a key that names no field of the schema raises
\* MissingAttributeError, and any other key makes the sink of the field the
\* current sink, resets the decoder and sets the state expect_colon.
C28_KeyCloseAsClaimed ==
    [][\A id \in DOMAIN engines :
         KeyCloseFed(id)
         => IF engines[id].decoder.buffer = <<>>
            THEN err'.kind = "EmptyKeyError"
            ELSE IF engines[id].decoder.buffer \notin FieldNames(engines[id].cls)
            THEN err'.kind = "MissingAttributeError"
            ELSE KeyAccepted(id)]_vars

\* C28 amended: as claimed, except that a key naming an attribute of the
\* instance that is not a sink raises UnexpectedAttributeTypeError, and only
\* a key naming no attribute at all raises MissingAttributeError.
C28_KeyClose ==
    [][\A id \in DOMAIN engines :
         KeyCloseFed(id)
         => IF engines[id].decoder.buffer = <<>>
            THEN /\ err'.kind = "EmptyKeyError"
                 /\ engines'[id].state = "parsing_key"
            ELSE IF engines[id].decoder.buffer \in NonSinkAttrs
            THEN /\ err'.kind = "UnexpectedAttributeTypeError"
                 /\ engines'[id].state = "parsing_key"
                 /\ engines'[id].current_key = engines[id].current_key
            ELSE IF engines[id].decoder.buffer \notin FieldNames(engines[id].cls)
            THEN /\ err'.kind = "MissingAttributeError"
                 /\ engines'[id].state = "parsing_key"
                 /\ engines'[id].current_key = engines[id].current_key
            ELSE KeyAccepted(id)]_vars

\* C28 witness: the key `_pda`, an attribute of the instance that is no
\* sink, was closed and rejected.
C28_Witness ==
    /\ doc = 19
    /\ stray = 0
    /\ pos = 7
    /\ root.state = "parsing_key"
    /\ root.decoder.buffer = Str(<<"_", "p", "d", "a">>)
    /\ err.kind = "UnexpectedAttributeTypeError"

\* The code unit written by the three hex digits ub and the fourth, ch.
CodeUnit(ub, ch) ==
    4096 * HexDigitVal(ub[1]) + 256 * HexDigitVal(ub[2])
    + 16 * HexDigitVal(ub[3]) + HexDigitVal(ch)

\* The character the step feeds to the engine id.
FedCh(id) == Last(engines'[id].history)

\* The code unit that the character fed to the engine id completes.
FedCodeUnit(id) == CodeUnit(engines[id].decoder.unicode_buffer, FedCh(id))

\* The engine id, parsing a key or a string, is fed the fourth hex digit of
\* a \uXXXX escape.
FourthHexDigitFed(id) ==
    /\ engines[id].state \in {"parsing_key", "parsing_string"}
    /\ ~(Top(engines[id]) = "array" /\ CurSink(engines[id]).kind = "AwaitableValue")
    /\ engines[id].decoder.is_parsing_unicode
    /\ Len(engines[id].decoder.unicode_buffer) = 3
    /\ \A i \in 1..3 : HexDigitVal(engines[id].decoder.unicode_buffer[i]) >= 0
    /\ FedTo(id, FedCh(id))
    /\ HexDigitVal(FedCh(id)) >= 0

\* C29: when the fourth hex digit of a \uXXXX escape completes a code unit
\* cu: with a high surrogate hi pending, a low surrogate appends the one code
\* point 0x10000 + ((hi - 0xD800) << 10) + (cu - 0xDC00) and clears the
\* pending slot, and any other code unit raises StreamParseError; with none
\* pending, a high surrogate is retained and nothing is appended, and any
\* other code unit is appended as it is.
C29_SurrogatePairs ==
    [][\A id \in DOMAIN engines :
         FourthHexDigitFed(id)
         => IF engines[id].decoder.high_surrogate # NoSurrogate
            THEN IF FedCodeUnit(id) \in 56320..57343
                 THEN /\ err'.kind = "ok"
                      /\ engines'[id].decoder.buffer
                           = Append(engines[id].decoder.buffer,
                                    65536
                                    + (engines[id].decoder.high_surrogate - 55296) * 1024
                                    + (FedCodeUnit(id) - 56320))
                      /\ engines'[id].decoder.high_surrogate = NoSurrogate
                 ELSE err'.kind = "StreamParseError"
            ELSE IF FedCodeUnit(id) \in 55296..56319
            THEN /\ err'.kind = "ok"
                 /\ engines'[id].decoder.buffer = engines[id].decoder.buffer
                 /\ engines'[id].decoder.high_surrogate
                      = FedCodeUnit(id)
            ELSE /\ err'.kind = "ok"
                 /\ engines'[id].decoder.buffer
                      = Append(engines[id].decoder.buffer,
                               FedCodeUnit(id))
                 /\ engines'[id].decoder.high_surrogate = NoSurrogate]_vars

\* C29 witness: 😀 was fed and the code point 0x1F600 is in the
\* buffer, with no surrogate pending.
C29_Witness ==
    /\ doc = 2
    /\ stray = 0
    /\ pos = 18
    /\ root.state = "parsing_string"
    /\ root.decoder.buffer = <<128512>>
    /\ root.decoder.high_surrogate = NoSurrogate
    /\ ~root.decoder.is_parsing_unicode

\* The engine g is inside an array of a field with a streaming sink (the
\* array mode sits right above the root mode).
InStreamedArray(g) ==
    /\ Len(g.stack) >= 2
    /\ g.stack[2] = "array"
    /\ g.current_key # NoKey
    /\ CurSink(g).kind = "StreamableValues"

\* The character ch completes an element of the array the engine g is in
\* (a nested object is put when it starts).
ElementCompletes(g, ch) ==
    /\ Top(g) = "array"
    /\ \/ g.state = "parsing_string" /\ is_terminating_quote(g.decoder, ch)
       \/ g.state \in PRIMITIVE_STATES /\ ch \in {Ord(","), Ord("]")}
       \/ g.state = "expect_value" /\ ch = Ord("{")

\* The character ch ends the array the engine g is in.
ArrayEnds(g, ch) ==
    /\ Top(g) = "array"
    /\ ch = Ord("]")
    /\ g.state \in PRIMITIVE_STATES \cup {"expect_value", "expect_comma_or_eoc"}

\* The item val is the element that completed in the engine g.
IsElementOf(g, val) ==
    IF g.state = "parsing_string" THEN val = StrV(g.decoder.buffer)
    ELSE IF g.state = "parsing_null" THEN val = NoneV
    ELSE IF g.state = "parsing_boolean" THEN val.t = "bool"
    ELSE IF g.state \in PRIMITIVE_STATES THEN val.t \in {"int", "float"}
    ELSE val = JMuxV(Len(engines) + 1)

\* The queue q2 is the queue q followed by n more entries.
Extends(q2, q, n) ==
    /\ Len(q2) = Len(q) + n
    /\ SubSeq(q2, 1, Len(q)) = q

\* The feed_char just made on the engine id, inside a streamed array, kept
\* to C30: sink s before, s2 after.
ArrayStepOk(id, s, s2) ==
    /\ Extends(s2.queue, s.queue,
               (IF ElementCompletes(engines[id], FedCh(id)) THEN 1 ELSE 0)
               + (IF ArrayEnds(engines[id], FedCh(id)) THEN 1 ELSE 0))
    /\ ElementCompletes(engines[id], FedCh(id))
       => IsElementOf(engines[id], s2.queue[Len(s.queue) + 1])
    /\ IF ArrayEnds(engines[id], FedCh(id))
       THEN /\ ~s.closed
            /\ s2.closed
            /\ Last(s2.queue) = NoneV
            /\ engines'[id].stack = <<"$">>
            /\ engines'[id].state = "expect_comma_or_eoc"
       ELSE /\ s2.closed = s.closed
            /\ engines'[id].stack[2] = "array"

\* C30: inside the array of a field with a streaming sink, a feed_char that
\* returns appends the element it completes, and nothing else, to the
\* sink's queue (so the elements are in source order); it closes the sink
\* only when the character is the `]` that ends the array, and then the sink
\* was open, the stack is the root mode alone and the state is
\* expect_comma_or_eoc (`[]` so closes the sink with no item put); a
\* feed_char that raises leaves the sink open or closed as it was; and a
\* closed sink is never reopened.
C30_ArrayElementsInOrderClosedOnce ==
    [][\A id \in DOMAIN engines :
         (InStreamedArray(engines[id]) /\ FedTo(id, FedCh(id)))
         => /\ engines'[id].current_key = engines[id].current_key
            /\ CurSink(engines[id]).closed => CurSink(engines'[id]).closed
            /\ IF err'.kind = "ok"
               THEN ArrayStepOk(id, CurSink(engines[id]), CurSink(engines'[id]))
               ELSE CurSink(engines'[id]).closed = CurSink(engines[id]).closed]_vars

\* C30 witness: {"l":[1, 23],"t":["x","ys"],"x":[] was fed: each sink holds
\* its elements in order and then the end marker, the empty array's sink
\* the end marker alone.
C30_Witness ==
    /\ doc = 9
    /\ stray = 0
    /\ pos = Len(Docs[9].text) - 1
    /\ raised = {}
    /\ root.stack = <<"$">>
    /\ root.state = "expect_comma_or_eoc"
    /\ root.sinks[Str(<<"l">>)].queue = <<IntV(1), IntV(23), NoneV>>
    /\ root.sinks[Str(<<"t">>)].queue
         = <<StrV(Str(<<"x">>)), StrV(Str(<<"y", "s">>)), NoneV>>
    /\ root.sinks[Str(<<"x">>)].queue = <<NoneV>>
    /\ \A k \in {Str(<<"l">>), Str(<<"t">>), Str(<<"x">>)} : root.sinks[k].closed

\* The engine g is collecting the hex digits of a \uXXXX escape of a key or
\* of a string value.
InUnicodeEscape(g) ==
    /\ g.state \in {"parsing_key", "parsing_string"}
    /\ g.decoder.is_parsing_unicode

\* C31: while the decoder collects the four hex digits of a \uXXXX escape,
\* is_terminating_quote is false of every character, `"` included, and no
\* feed_char takes the engine out of the key or the string it is parsing.
C31_NoTerminatorInsideUnicodeEscape ==
    [][\A id \in DOMAIN engines :
         InUnicodeEscape(engines[id])
         => /\ \A ch \in Alphabet : ~is_terminating_quote(engines[id].decoder, ch)
            /\ FedTo(id, FedCh(id)) => engines'[id].state = engines[id].state]_vars

\* The value last put into the current sink of the engine g is a nested
\* instance that was fed its opening `{` and is not in state end.
LiveNestedAttached(g) ==
    /\ g.current_key # NoKey
    /\ get_current(CurSink(g)).ok
    /\ get_current(CurSink(g)).v.t = "JMux"
    /\ get_current(CurSink(g)).v.v[1] \in DOMAIN engines
    /\ engines[get_current(CurSink(g)).v.v[1]].history # <<>>
    /\ engines[get_current(CurSink(g)).v.v[1]].history[1] = Ord("{")
    /\ engines[get_current(CurSink(g)).v.v[1]].state \notin {"start", "end"}

\* C32: in every reachable state an engine is in state parsing_object if
\* and only if the top of its stack is `object`, and then the value last
\* put into its current sink is a nested instance that has received the
\* opening `{` and has not reached state end.
C32_ParsingObjectIffObjectOnTop ==
    \A id \in DOMAIN engines :
        /\ engines[id].state = "parsing_object" <=> Top(engines[id]) = "object"
        /\ engines[id].state = "parsing_object" => LiveNestedAttached(engines[id])

\* C32 witness: the root of {"i":{"j":{"a":"x" is in parsing_object, and so
\* is the nested instance of i, each with its live nested instance.
C32_Witness ==
    /\ doc = 14
    /\ stray = 0
    /\ Len(engines) = 3
    /\ root.state = "parsing_object"
    /\ root.stack = <<"$", "object">>
    /\ engines[2].state = "parsing_object"
    /\ engines[2].stack = <<"$", "object">>
    /\ engines[3].state = "expect_comma_or_eoc"
    /\ LiveNestedAttached(root)
    /\ LiveNestedAttached(engines[2])

\* The engine g is in an array of a field bound to an AwaitableValue sink.
InAwaitableArray(g) ==
    /\ Top(g) = "array"
    /\ g.current_key # NoKey
    /\ CurSink(g).kind = "AwaitableValue"

\* C33: in array context with an AwaitableValue as the current sink, the
\* opening quote of a string element puts nothing into the sink, every
\* character fed after it raises UnexpectedCharacterError and leaves the
\* engine in parsing_string, and nothing is put into the sink.
C33_NoStringInAwaitableArray ==
    [][\A id \in DOMAIN engines :
         (InAwaitableArray(engines[id]) /\ FedTo(id, FedCh(id)))
         => /\ (engines[id].state = "expect_value" /\ FedCh(id) = Ord("\""))
               => /\ engines'[id].sinks = engines[id].sinks
                  /\ \/ err'.kind = "UnexpectedCharacterError"
                     \/ engines'[id].state = "parsing_string"
            /\ engines[id].state = "parsing_string"
               => /\ err'.kind = "UnexpectedCharacterError"
                  /\ engines'[id].sinks = engines[id].sinks
                  /\ engines'[id].state = "parsing_string"
                  /\ engines'[id].stack = engines[id].stack
                  /\ engines'[id].decoder = engines[id].decoder]_vars

\* C33 witness: {"a":["x was fed to a schema whose field a is an
\* AwaitableValue[str]: the x was rejected and the sink is empty and open.
C33_Witness ==
    /\ doc = 22
    /\ stray = 0
    /\ pos = 8
    /\ root.state = "parsing_string"
    /\ InAwaitableArray(root)
    /\ err.kind = "UnexpectedCharacterError"
    /\ IsNone(CurSink(root).value)
    /\ ~CurSink(root).is_closed

\* The literals the buffer of the engine g may be a prefix of.
LiteralsOf(g) ==
    IF g.state = "parsing_null" THEN {Str(<<"n", "u", "l", "l">>)}
    ELSE {Str(<<"t", "r", "u", "e">>), Str(<<"f", "a", "l", "s", "e">>)}

\* The buffer b is a non-empty prefix of a literal of the engine g.
IsLiteralPrefix(g, b) ==
    /\ b # <<>>
    /\ \E lit \in LiteralsOf(g) : StartsWith(lit, b)

\* C34: in state parsing_boolean the decoder buffer is a non-empty prefix of
\* `true` or of `false`, in state parsing_null a non-empty prefix of `null`;
\* a character other than a terminator that would break this raises
\* UnexpectedCharacterError and leaves the buffer as it was.
C34_LiteralBufferIsPrefix ==
    [][\A id \in DOMAIN engines :
         engines[id].state \in {"parsing_boolean", "parsing_null"}
         => /\ IsLiteralPrefix(engines[id], engines[id].decoder.buffer)
            /\ ( /\ FedTo(id, FedCh(id))
                 /\ FedCh(id) \notin Chars(<<",", "}", "]">>)
                 /\ ~IsLiteralPrefix(engines[id],
                                     Append(engines[id].decoder.buffer, FedCh(id))) )
               => /\ err'.kind = "UnexpectedCharacterError"
                  /\ engines'[id].decoder.buffer = engines[id].decoder.buffer]_vars

\* The step completes a key of the engine id.
KeyCompletion(id) ==
    /\ engines[id].state = "parsing_key"
    /\ engines'[id].state = "expect_colon"

\* The step feeds the engine id a `}` that calls _finalize.
FinalizeStep(id) ==
    /\ Top(engines[id]) = "$"
    /\ FedCh(id) = Ord("}")
    /\ engines[id].state \in PRIMITIVE_STATES \cup {"expect_comma_or_eoc"}

\* Sink s2 is sink s with no value put into it since (it may have been
\* closed).
NoValuePut(s, s2) ==
    /\ s2.kind = s.kind
    /\ IF s.kind = "AwaitableValue"
       THEN s2.value = s.value
       ELSE /\ s2.last_item = s.last_item
            /\ s2.queue \in {s.queue, Append(s.queue, NoneV)}

\* C35: every value an engine emits, and every close that ends a value, goes
\* to the sink of the key completed last and leaves every other sink of the
\* engine as it was; the current sink changes only when a key is completed
\* and inside _finalize, and _finalize puts no value into the sinks it
\* closes.
C35_ValuesGoToCurrentSinkOnly ==
    [][\A id \in DOMAIN engines :
         FedTo(id, FedCh(id))
         => /\ engines'[id].current_key # engines[id].current_key
               => KeyCompletion(id) \/ FinalizeStep(id)
            /\ KeyCompletion(id)
               => /\ engines'[id].sinks = engines[id].sinks
                  /\ engines'[id].current_key = engines[id].decoder.buffer
            /\ \A k \in DOMAIN engines[id].sinks :
                 k # engines[id].current_key
                 => IF FinalizeStep(id)
                    THEN NoValuePut(engines[id].sinks[k], engines'[id].sinks[k])
                    ELSE engines'[id].sinks[k] = engines[id].sinks[k]]_vars

\* C35 witness: {"a": "x\"y", "n":-42,"b":true} was fed: each of the three
\* sinks holds the value that followed its key, and the sinks of the keys
\* that did not occur hold nothing.
C35_Witness ==
    /\ doc = 4
    /\ stray = 0
    /\ pos = Len(Docs[4].text)
    /\ root.state = "end"
    /\ root.sinks[Str(<<"a">>)].value = StrV(Str(<<"x", "\"", "y">>))
    /\ root.sinks[Str(<<"n">>)].value = IntV(0 - 42)
    /\ root.sinks[Str(<<"b">>)].value = BoolV(TRUE)
    /\ IsNone(root.sinks[Str(<<"f">>)].value)
    /\ IsNone(root.sinks[Str(<<"o">>)].value)

\* The engine g is reading a value: it has seen the colon, or the start of
\* the value, and not yet its end.
ValueOpen(g) ==
    \/ Top(g) = "$" /\ g.state \in PRIMITIVE_STATES \cup {"expect_value", "parsing_string"}
    \/ Top(g) \in {"array", "object"}

\* The engine g is reading a value for a key whose sink is closed: the key
\* has occurred before and its first value was completed.
SecondValueOpen(g) ==
    /\ g.current_key # NoKey
    /\ SinkIsClosed(CurSink(g))
    /\ ValueOpen(g)

\* C36: a closed sink of an engine is never changed again, so no value of a
\* second occurrence of its key is committed to it; and while the engine
\* reads a value for a key whose sink is closed, no feed_char that returns
\* normally ends the value: the character that would end it raises.
C36_DuplicateKeyCommitsNothing ==
    [][\A id \in DOMAIN engines :
         FedTo(id, FedCh(id))
         => /\ \A k \in DOMAIN engines[id].sinks :
                 SinkIsClosed(engines[id].sinks[k])
                 => engines'[id].sinks[k] = engines[id].sinks[k]
            /\ (SecondValueOpen(engines[id]) /\ err'.kind = "ok")
               => SecondValueOpen(engines'[id])]_vars

\* C36 witness: {"a":"x","a":"y" was fed: the closing quote of the second
\* value raised and the sink still holds x.
C36_Witness ==
    /\ doc = 17
    /\ stray = 0
    /\ pos = 16
    /\ root.current_key = Str(<<"a">>)
    /\ root.state = "parsing_string"
    /\ root.decoder.buffer = Str(<<"y">>)
    /\ err.kind = "ValueError"
    /\ CurSink(root).is_closed
    /\ CurSink(root).value = StrV(Str(<<"x">>))

\* The feed_char of this step has left the engine id as it was: state,
\* stack, decoder buffer, current sink and every sink.
EngineUntouched(id) ==
    /\ engines'[id].state = engines[id].state
    /\ engines'[id].stack = engines[id].stack
    /\ engines'[id].decoder.buffer = engines[id].decoder.buffer
    /\ engines'[id].current_key = engines[id].current_key
    /\ engines'[id].sinks = engines[id].sinks

\* C37: a feed_char that raises UnexpectedCharacterError has had no effect:
\* no nested instance was created, and state, stack, decoder buffer,
\* current sink and the contents and closed flag of every sink of every
\* engine are as before the call.
C37_UnexpectedCharacterHasNoEffect ==
    [][(FedTo(1, FedCh(1)) /\ err'.kind = "UnexpectedCharacterError")
       => /\ Len(engines') = Len(engines)
          /\ \A id \in DOMAIN engines : EngineUntouched(id)]_vars

\* The stacks an engine may have.
StackShapes ==
    { <<>>, <<"$">>, <<"$", "array">>, <<"$", "object">>,
      <<"$", "array", "object">> }

\* C39: in every reachable state the stack of every engine, root or nested,
\* is empty, [$], [$, array], [$, object] or [$, array, object]; deeper
\* nesting of the document is carried by the stacks of the nested engines.
C39_StackShapes ==
    \A id \in DOMAIN engines : engines[id].stack \in StackShapes

\* C39 witness: inside the first element of {"m":[{"a":"x"},...] the root
\* has the deepest stack, and the nested instance has its own.
C39_Witness ==
    /\ doc = 11
    /\ stray = 0
    /\ Len(engines) = 2
    /\ root.stack = <<"$", "array", "object">>
    /\ engines[2].stack = <<"$">>
    /\ engines[2].state = "parsing_string"

\* The step ends a key or a string value of the engine id: the engine has
\* called reset on its decoder.
LiteralEnded(id) ==
    \/ engines[id].state = "parsing_key" /\ engines'[id].state = "expect_colon"
    \/ /\ engines[id].state = "parsing_string"
       /\ engines'[id].state = "expect_comma_or_eoc"

\* C40: after the reset that ends a key or a string value the decoder is in
\* its initial state: the buffer is empty and no pending escape, partly
\* collected \uXXXX sequence or pending high surrogate is left for the next
\* literal.
C40_ResetRestoresInitialDecoder ==
    [][\A id \in DOMAIN engines :
         (FedTo(id, FedCh(id)) /\ LiteralEnded(id))
         => engines'[id].decoder = NewDecoder]_vars


(***************************************************************************)
(* Properties of the sinks and of the event loop, checked under SpecSink   *)
(* and SpecAsync.                                                          *)
(***************************************************************************)
\* C6: a consumer iterating a StreamableValues never fails, has received
\* exactly the values put, in put order, when its iteration ends, and does
\* not stay suspended once the sink is closed.
C6_ConsumerReceivesPutsThenEnds ==
    /\ tasks[1].pc # "failed"
    /\ tasks[1].pc = "done" => tasks[1].got = sent
    /\ tasks[1].pc = "waiting" => ~sink.closed

\* C7: when the producer was given a valid document matching the schema and
\* the loop has nothing left to run, every consumer of a top-level field has
\* finished.
C7_ConsumersFinish ==
    (Docs[doc].valid /\ Idle)
    => \A k \in Consumers : tasks[k].pc = "done"

\* The producer feeds a character in this step.
ProducerFeeds == Len(root'.history) = Len(root.history) + 1

\* C8: with a producer that yields after every feed_char, when the producer
\* feeds a character every item put so far into a StreamableValues[str]
\* sink has been received by the sink's consumer, and a consumer receives
\* one streamed character at a time.
C8_ReceivedBeforeNextFeed ==
    [][/\ ProducerFeeds
          => \A k \in Consumers :
               LET s == root.sinks[Fields(root.cls)[k].name] IN
               (s.kind = "StreamableValues" /\ s.generics = {"str"})
               => s.queue = <<>>
       /\ \A k \in Consumers :
            LET s == root.sinks[Fields(root.cls)[k].name] IN
            (s.kind = "StreamableValues" /\ s.generics = {"str"})
            => Len(tasks'[k].got) <= Len(tasks[k].got) + 1]_vars

\* C8 witness: the producer is about to feed the i of Paris and the
\* consumer of s has received the eight characters streamed before it.
C8_Witness ==
    /\ doc = 1 /\ pos = 14 /\ ready # <<>> /\ Head(ready) = Producer
    /\ Len(tasks[1].got) = 8
    /\ tasks[1].got[1] = StrV(Str(<<"P">>))
    /\ tasks[1].pc = "waiting"

(***************************************************************************)
(* Properties of a sink called in any order, checked under SpecCalls.      *)
(***************************************************************************)
\* The call op is made in this step.
CallMade(op) == Len(sent') = Len(sent) + 1 /\ Last(sent').op = op

\* The puts in the log that succeeded.
OkPuts(log) == SelectSeq(log, LAMBDA c : c.op = "put" /\ c.err = "ok")

C13_ClosureIsTerminal ==
    [][/\ ( /\ CallMade("close") \/ CallMade("ensure_closed")
            /\ Last(sent').err = "ok" )
          => SinkIsClosed(sink')
       /\ SinkIsClosed(sink)
          => /\ SinkIsClosed(sink')
             /\ CallMade("put")
                => /\ Last(sent').err = "ValueError"
                   /\ sink' = sink]_vars

\* C13 witness: a StreamableValues was put into and closed, and a later put
\* failed and left the item and the end marker in the queue.
C13_Witness ==
    /\ sink.kind = "StreamableValues"
    /\ Len(sent) = 3
    /\ sent[1] = [op |-> "put", val |-> IntV(7), err |-> "ok"]
    /\ sent[2] = [op |-> "close", val |-> NoneV, err |-> "ok"]
    /\ sent[3] = [op |-> "put", val |-> IntV(0), err |-> "ValueError"]
    /\ sink.closed
    /\ sink.queue = <<IntV(7), NoneV>>
    /\ sink.last_item = IntV(7)

\* C14: close on a closed sink of either variant raises SinkClosedError and
\* leaves the sink as it was: a StreamableValues gets no second end-of-stream
\* marker in its queue.
C14_DoubleCloseFails ==
    [][(CallMade("close") /\ SinkIsClosed(sink))
       => /\ Last(sent').err = "SinkClosedError"
          /\ sink' = sink]_vars

\* C14 witness: a StreamableValues was closed twice; the second close failed
\* and the queue holds the one end marker.
C14_Witness ==
    /\ sink.kind = "StreamableValues"
    /\ Len(sent) = 2
    /\ sent[1] = [op |-> "close", val |-> NoneV, err |-> "ok"]
    /\ sent[2] = [op |-> "close", val |-> NoneV, err |-> "SinkClosedError"]
    /\ sink.closed
    /\ sink.queue = <<NoneV>>

\* C15: close on an AwaitableValue that is not set: when its element types
\* do not include None it raises NothingEmittedError and the sink stays
\* unset and open; when they do, it succeeds, the sink is closed, its value
\* is None, and an await pending on it is scheduled and yields None.
C15_CloseUnsetAwaitable ==
    [][(sink.kind = "AwaitableValue" /\ CallMade("close") /\ ~sink.event)
       => IF "NoneType" \in sink.generics
          THEN /\ Last(sent').err = "ok"
               /\ sink'.is_closed
               /\ sink'.event
               /\ sink'.value = NoneV
               /\ tasks[1].pc = "waiting" => tasks'[1].pc = "ready"
               /\ Wait(sink', <<>>).pc = "done"
               /\ Wait(sink', <<>>).got = <<NoneV>>
          ELSE /\ Last(sent').err = "NothingEmittedError"
               /\ sink' = sink
               /\ ~sink'.event /\ ~sink'.is_closed
               /\ tasks'[1] = tasks[1]]_vars

\* C15 witness: an unset AwaitableValue[str | None] was closed and the
\* await on it has yielded None.
C15_Witness ==
    /\ sink.kind = "AwaitableValue"
    /\ sink.generics = {"str", "NoneType"}
    /\ sent = <<[op |-> "close", val |-> NoneV, err |-> "ok"]>>
    /\ sink.is_closed
    /\ tasks[1] = [pc |-> "done", got |-> <<NoneV>>]

\* C16: ensure_closed on a closed sink returns without raising and leaves
\* the sink as it was, however often it is called; on a sink that is not
\* closed it does what close does, which for an unset AwaitableValue not
\* allowing None is to raise NothingEmittedError.
C16_EnsureClosedIsIdempotentClose ==
    [][CallMade("ensure_closed")
       => IF SinkIsClosed(sink)
          THEN /\ Last(sent').err = "ok"
               /\ sink' = sink
          ELSE /\ [s |-> sink', err |-> Last(sent').err] = SinkClose(sink)
               /\ Last(sent').err = "ok" => SinkIsClosed(sink')
               /\ ( /\ sink.kind = "AwaitableValue"
                    /\ ~sink.event
                    /\ "NoneType" \notin sink.generics )
                  => /\ Last(sent').err = "NothingEmittedError"
                     /\ sink' = sink]_vars

\* C16 witness: an AwaitableValue[int] was set and then ensure_closed twice
\* without an exception.
C16_Witness ==
    /\ sink.kind = "AwaitableValue"
    /\ sink.generics = {"int"}
    /\ Len(sent) = 3
    /\ sent[1] = [op |-> "put", val |-> IntV(7), err |-> "ok"]
    /\ sent[2] = [op |-> "ensure_closed", val |-> NoneV, err |-> "ok"]
    /\ sent[3] = [op |-> "ensure_closed", val |-> NoneV, err |-> "ok"]
    /\ sink.is_closed
    /\ sink.value = IntV(7)


(***************************************************************************)
(* Properties of a producer that has finished before any consumer runs,    *)
(* checked under SpecLate.                                                 *)
(***************************************************************************)
\* The values put into the sink s, closed and not yet read: the queue
\* without the end marker, or the value of the AwaitableValue.
ValuesPut(s) ==
    IF s.kind = "StreamableValues" THEN Front(s.queue) ELSE <<s.value>>

\* C38: when the producer has fed a whole valid document to state end with
\* no consumer running, each consumer started afterwards receives every
\* value put into the sink of its field, in order, and finishes.
C38_LateConsumersReceiveEverything ==
    [][\A k \in Consumers :
         ( /\ Docs[doc].valid
           /\ tasks[Producer].pc = "done"
           /\ root.state = "end"
           /\ ready # <<>>
           /\ Head(ready) = k )
         => /\ tasks'[k].pc = "done"
            /\ tasks'[k].got = ValuesPut(root.sinks[Fields(root.cls)[k].name])]_vars

=============================================================================
